---- MODULE Spec2Model ----
(***************************************************************************)
(* Model of the study-assistant backend: the academic gating and response  *)
(* composition of GeminiService (services/gemini_client.py) and the        *)
(* send_message request handler (routes/chat.py) over the message store    *)
(* (services/supabase_client.py).                                          *)
(*                                                                         *)
(* Text is modelled by TLA+ strings; Python's str operations (lower,       *)
(* upper, strip, slicing, "in", re.search) are operators computed the way  *)
(* Python computes them, over the ASCII characters listed below.           *)
(***************************************************************************)
EXTENDS Integers, Sequences, FiniteSets, TLC

\* ------------------------------------------------------------ bounds
\* Pieces concatenated into a question handed to the classifier.
MaxPieces == 2
\* Extracts handed to one generate_response call.
MaxDocs == 2
\* Turns of history handed to one generate_response call.
MaxHist == 12
\* max_length values tried for generate_chat_title: 0 .. MaxTitleLen.
MaxTitleLen == 6
\* max_length values tried for summarize_document: 0 .. MaxSummaryLen.
MaxSummaryLen == 6
\* send_message requests in one behaviour of the chat specification.
MaxReq == 2
\* Chats created in one behaviour of the chat specification.
MaxChats == 1
\* Calls of the store that raise in one behaviour of the chat specification.
MaxFaults == 1
\* File records created in one behaviour of the store specification.
MaxFiles == 1
\* Auth requests (signup, reset_password) in one behaviour of an auth specification.
MaxAuth == 3
\* Password reset tokens created in one behaviour of the reset specification.
MaxTokens == 1
\* Pieces concatenated into a password handed to validate_password.
MaxPasswordPieces == 3

\* ------------------------------------------------------------ Python str
Min(a, b) == IF a < b THEN a ELSE b
Max(a, b) == IF a > b THEN a ELSE b

LowerChars == "abcdefghijklmnopqrstuvwxyz"
UpperChars == "ABCDEFGHIJKLMNOPQRSTUVWXYZ"
DigitChars == "0123456789_"
SpaceChars == " \n\t"

CharAt(s, i) == SubSeq(s, i, i)
HasChar(alphabet, c) == \E i \in 1..Len(alphabet) : CharAt(alphabet, i) = c
IndexIn(alphabet, c) == CHOOSE i \in 1..Len(alphabet) : CharAt(alphabet, i) = c

\* str.lower() / str.upper(), one character
char_lower(c) == IF HasChar(UpperChars, c) THEN CharAt(LowerChars, IndexIn(UpperChars, c)) ELSE c
char_upper(c) == IF HasChar(LowerChars, c) THEN CharAt(UpperChars, IndexIn(LowerChars, c)) ELSE c

RECURSIVE str_lower(_)
str_lower(s) ==
    IF Len(s) = 0 THEN ""
    ELSE IF Len(s) = 1 THEN char_lower(s)
    ELSE str_lower(SubSeq(s, 1, Len(s) \div 2)) \o str_lower(SubSeq(s, Len(s) \div 2 + 1, Len(s)))

RECURSIVE str_upper(_)
str_upper(s) == IF Len(s) = 0 THEN "" ELSE char_upper(CharAt(s, 1)) \o str_upper(SubSeq(s, 2, Len(s)))

\* str.strip(): leading and trailing whitespace removed
RECURSIVE str_lstrip(_)
str_lstrip(s) ==
    IF Len(s) > 0 /\ HasChar(SpaceChars, CharAt(s, 1)) THEN str_lstrip(SubSeq(s, 2, Len(s))) ELSE s

RECURSIVE str_rstrip(_)
str_rstrip(s) ==
    IF Len(s) > 0 /\ HasChar(SpaceChars, CharAt(s, Len(s))) THEN str_rstrip(SubSeq(s, 1, Len(s) - 1)) ELSE s

str_strip(s) == str_rstrip(str_lstrip(s))

\* s[:k], negative k counting from the end as Python does
slice_to(s, k) ==
    IF k >= 0 THEN SubSeq(s, 1, Min(k, Len(s))) ELSE SubSeq(s, 1, Max(Len(s) + k, 0))

\* s[-n:] for n > 0
slice_last(s, n) == SubSeq(s, Max(Len(s) - n, 0) + 1, Len(s))

\* s[:-1]
slice_drop_last(s) == SubSeq(s, 1, Max(Len(s) - 1, 0))

\* w occurs in s starting at position i
OccursAt(s, i, w) == i >= 1 /\ i + Len(w) - 1 <= Len(s) /\ SubSeq(s, i, i + Len(w) - 1) = w

\* Python's  w in s
str_contains(s, w) == \E i \in 1..(Len(s) + 1) : OccursAt(s, i, w)

\* ------------------------------------------------------------ re.search
\* \w and \s of the pattern language, on lowercased ASCII text
IsWordChar(s, i) ==
    /\ i >= 1
    /\ i <= Len(s)
    /\ (HasChar(LowerChars, CharAt(s, i)) \/ HasChar(UpperChars, CharAt(s, i)) \/ HasChar(DigitChars, CharAt(s, i)))

IsSpace(s, i) == i >= 1 /\ i <= Len(s) /\ HasChar(SpaceChars, CharAt(s, i))

\* \b just before position i (1 .. Len(s)+1)
WordBoundary(s, i) == IsWordChar(s, i - 1) # IsWordChar(s, i)

\* \bw\b matched at position i
WholeWordAt(s, i, w) == OccursAt(s, i, w) /\ WordBoundary(s, i) /\ WordBoundary(s, i + Len(w))

\* every character of s[i..j-1] is whitespace, and there is at least one
SpaceRun(s, i, j) == i < j /\ \A p \in i..(j - 1) : IsSpace(s, p)

\* every character of s[i..j-1] is other than a newline ('.' does not match "\n")
DotRun(s, i, j) == i <= j /\ \A p \in i..(j - 1) : CharAt(s, p) # "\n"

\* ------------------------------------------------------------ is_academic_question
academic_keywords ==
    << "research", "study", "analysis", "theory", "hypothesis", "methodology",
       "literature", "academic", "scholarly", "scientific", "experiment",
       "data", "findings", "conclusion", "abstract", "thesis", "dissertation",
       "journal", "publication", "citation", "reference", "bibliography",
       "education", "learning", "course", "curriculum", "syllabus",
       "concept", "principle", "framework", "model", "paradigm" >>

non_academic_keywords ==
    << "entertainment", "movie", "game", "music", "celebrity", "gossip",
       "shopping", "recipe", "cooking", "fashion", "sports", "weather",
       "personal", "relationship", "dating", "social media", "meme" >>

\* for keyword in keywords: if keyword in question_lower
AnyKeywordIn(keywords, text) == \E k \in 1..Len(keywords) : str_contains(text, keywords[k])

\* r'\b(what|how|why|when|where)\s+(is|are|does|do|did|can|could|would|should)\b.*\b(concept|theory|principle|method|approach|framework)\b'
pattern_what_is ==
    [ ask  |-> << "what", "how", "why", "when", "where" >>,
      verb |-> << "is", "are", "does", "do", "did", "can", "could", "would", "should" >>,
      noun |-> << "concept", "theory", "principle", "method", "approach", "framework" >> ]

\* r'\bexplain\s+(the|this|that|how|why)\b'
pattern_explain == [ head |-> "explain", obj |-> << "the", "this", "that", "how", "why" >> ]

\* r'\b(analyze|examine|discuss|evaluate|compare|contrast|critique)\b'
pattern_verbs == << "analyze", "examine", "discuss", "evaluate", "compare", "contrast", "critique" >>

\* r'\b(according to|based on|as mentioned in|as stated in)\b.*\b(document|paper|text|study|research)\b'
pattern_according ==
    [ lead |-> << "according to", "based on", "as mentioned in", "as stated in" >>,
      noun |-> << "document", "paper", "text", "study", "research" >> ]

search_what_is(s) ==
    \E i \in 1..Len(s) : \E a \in 1..Len(pattern_what_is.ask) :
        LET w == pattern_what_is.ask[a] IN
        /\ OccursAt(s, i, w)
        /\ WordBoundary(s, i)
        /\ \E j \in (i + Len(w) + 1)..Len(s) : \E b \in 1..Len(pattern_what_is.verb) :
              LET v == pattern_what_is.verb[b] IN
              /\ SpaceRun(s, i + Len(w), j)
              /\ OccursAt(s, j, v)
              /\ WordBoundary(s, j + Len(v))
              /\ \E k \in (j + Len(v))..Len(s) : \E c \in 1..Len(pattern_what_is.noun) :
                    /\ DotRun(s, j + Len(v), k)
                    /\ WholeWordAt(s, k, pattern_what_is.noun[c])

search_explain(s) ==
    \E i \in 1..Len(s) :
        /\ OccursAt(s, i, pattern_explain.head)
        /\ WordBoundary(s, i)
        /\ \E j \in (i + Len(pattern_explain.head) + 1)..Len(s) : \E b \in 1..Len(pattern_explain.obj) :
              /\ SpaceRun(s, i + Len(pattern_explain.head), j)
              /\ OccursAt(s, j, pattern_explain.obj[b])
              /\ WordBoundary(s, j + Len(pattern_explain.obj[b]))

search_verbs(s) ==
    \E i \in 1..Len(s) : \E a \in 1..Len(pattern_verbs) : WholeWordAt(s, i, pattern_verbs[a])

search_according(s) ==
    \E i \in 1..Len(s) : \E a \in 1..Len(pattern_according.lead) :
        LET w == pattern_according.lead[a] IN
        /\ WholeWordAt(s, i, w)
        /\ \E k \in (i + Len(w))..Len(s) : \E c \in 1..Len(pattern_according.noun) :
              /\ DotRun(s, i + Len(w), k)
              /\ WholeWordAt(s, k, pattern_according.noun[c])

\* for pattern in academic_patterns: if re.search(pattern, question_lower)
matches_academic_pattern(s) ==
    search_what_is(s) \/ search_explain(s) \/ search_verbs(s) \/ search_according(s)

\* The order of the two keyword scans with the academic scan first.
classify_question_academic_first(question) ==
    LET question_lower == str_lower(question) IN
    IF AnyKeywordIn(academic_keywords, question_lower) THEN TRUE
    ELSE IF AnyKeywordIn(non_academic_keywords, question_lower) THEN FALSE
    ELSE TRUE

\* The scans with the last return refusing.
classify_question_default_refuse(question) ==
    LET question_lower == str_lower(question) IN
    IF AnyKeywordIn(non_academic_keywords, question_lower) THEN FALSE
    ELSE IF AnyKeywordIn(academic_keywords, question_lower) THEN TRUE
    ELSE IF matches_academic_pattern(question_lower) THEN TRUE
    ELSE FALSE

\* GeminiService.is_academic_question: TRUE is ACADEMIC, FALSE is NON_ACADEMIC
classify_question(question) ==
    LET question_lower == str_lower(question) IN
    IF AnyKeywordIn(non_academic_keywords, question_lower) THEN FALSE
    ELSE IF AnyKeywordIn(academic_keywords, question_lower) THEN TRUE
    ELSE IF matches_academic_pattern(question_lower) THEN TRUE
    ELSE TRUE

\* The questions put to generate_response in this model, and their verdicts computed once.
GenQuestions ==
    { "What is the capital of France?", "What's the latest celebrity gossip?",
      "Explain the research methodology of this movie", "Analyze the thesis" }

ChatQuestions == { "explain entropy", "movie night" }

\* n characters of filler text
RECURSIVE Pad(_)
Pad(n) ==
    IF n = 0 THEN ""
    ELSE IF n % 2 = 1 THEN "x" \o Pad(n - 1)
    ELSE Pad(n \div 2) \o Pad(n \div 2)

\* Texts classified twice in a row: short ones, and texts of more than 2000 characters
\* that differ only past character 2000.
PairTexts ==
    { "explain entropy", "movie night", Pad(2000), Pad(2000) \o " movie", Pad(2000) \o " research" }

question_verdicts == [q \in GenQuestions \cup ChatQuestions \cup PairTexts |-> classify_question(q)]

\* is_academic_question as generate_response calls it
is_academic_question(question) ==
    IF question \in DOMAIN question_verdicts THEN question_verdicts[question]
    ELSE classify_question(question)

\* ------------------------------------------------------------ the external model
\* One call of self.model.generate_content(prompt) followed by response.text:
\* ok with the reply text, or an exception carrying a message.
Reply(text) == [ok |-> TRUE, text |-> text]
Failure(message) == [ok |-> FALSE, text |-> message]

\* ------------------------------------------------------------ is_academic_content
\* self.academic_checker_prompt (its closing line)
academic_checker_prompt == "Respond with only ACADEMIC or NON_ACADEMIC. Content to classify: "

\* content[:2000]
ClassifyLimit == 2000

\* content[:2000]: the part of an extract the external model is shown
classified_text(content) == slice_to(content, ClassifyLimit)

classify_prompt(content) == academic_checker_prompt \o classified_text(content)

\* The verdict with the failure of the call not let through.
is_academic_content_fail_closed(content, outcome) ==
    IF outcome.ok THEN str_upper(str_strip(outcome.text)) = "ACADEMIC" ELSE FALSE

\* GeminiService.is_academic_content, given the outcome of its external call
is_academic_content(content, outcome) ==
    IF outcome.ok THEN str_upper(str_strip(outcome.text)) = "ACADEMIC" ELSE TRUE

\* ------------------------------------------------------------ generate_response
\* self.system_prompt (its opening sentence)
system_prompt == "You are an AI assistant specialized in academic research and study."

off_topic_message == "I'm designed specifically for academic study and research purposes. Please ask questions related to academic content, research, or educational materials."

document_not_academic_message == "The information found in this document is not academic related, and this application is built for academic study and research."

\* chat_history[-10:]
HistoryWindow == 10

RECURSIVE str_join(_)
str_join(parts) == IF Len(parts) = 0 THEN "" ELSE Head(parts) \o str_join(Tail(parts))

\* The selection that keeps every element.
select_flagged_all(items, flags, want) == items

\* the elements of items whose flag is set, in order
RECURSIVE select_flagged(_, _, _)
select_flagged(items, flags, want) ==
    IF Len(items) = 0 THEN << >>
    ELSE (IF Head(flags) = want THEN << Head(items) >> ELSE << >>)
             \o select_flagged(Tail(items), Tail(flags), want)

\* f"\\n--- Document {i+1} ---\\n{doc}"   (i counts from 1 here)
document_part(i, doc) == "\\n--- Document " \o ToString(i) \o " ---\\n" \o doc

\* f"\\n{role}: {msg['content']}"
history_part(msg) == "\\n" \o (IF msg.role = "user" THEN "User" ELSE "Assistant") \o ": " \o msg.content

\* The window taken from the front of the history.
history_window_first(chat_history) == SubSeq(chat_history, 1, Min(Len(chat_history), HistoryWindow))

\* The turns rendered into the context: chat_history[-10:]
history_window(chat_history) == slice_last(chat_history, HistoryWindow)

document_section(academic_docs) ==
    IF Len(academic_docs) = 0 THEN << >>
    ELSE << "\\n\\nDocument Content:" >> \o [i \in 1..Len(academic_docs) |-> document_part(i, academic_docs[i])]

history_section(chat_history) ==
    IF Len(chat_history) = 0 THEN << >>
    ELSE << "\\n\\nPrevious Conversation:" >>
            \o [i \in 1..Len(history_window(chat_history)) |-> history_part(history_window(chat_history)[i])]

question_section(question) ==
    << "\\n\\nCurrent Question: " \o question, "\\n\\nPlease provide a comprehensive, academic response:" >>

classify_calls(document_contents, cls) ==
    [i \in 1..Len(document_contents) |->
        [kind |-> "classify", prompt |-> classify_prompt(document_contents[i]),
         ok |-> cls[i].ok, text |-> cls[i].text]]

generate_call(context_parts, gen) ==
    [kind |-> "generate", prompt |-> str_join(context_parts), ok |-> gen.ok, text |-> gen.text]

off_topic_result == [success |-> TRUE, response |-> off_topic_message, is_academic |-> FALSE]

document_refusal_result ==
    [success |-> TRUE, response |-> document_not_academic_message, is_academic |-> FALSE]

\* for doc_content in document_contents: academic_docs / non_academic_docs.
\* cls[i] is the outcome of the external call that classifies document_contents[i].
partition_documents(document_contents, cls) ==
    LET flags == [i \in 1..Len(document_contents) |-> is_academic_content(document_contents[i], cls[i])]
    IN  [ verdicts |-> flags,
          academic_docs |-> select_flagged(document_contents, flags, TRUE),
          non_academic_docs |-> select_flagged(document_contents, flags, FALSE) ]

\* The test with the two lists taken for each other.
documents_refused_swapped(parts) == Len(parts.academic_docs) > 0 /\ Len(parts.non_academic_docs) = 0

\* if non_academic_docs and not academic_docs
documents_refused(parts) == Len(parts.non_academic_docs) > 0 /\ Len(parts.academic_docs) = 0

\* The context with the conversation put before the documents.
build_context_history_first(question, academic_docs, chat_history) ==
    << system_prompt >> \o history_section(chat_history)
        \o document_section(academic_docs) \o question_section(question)

\* context_parts as it stands when full_prompt is joined
build_context(question, academic_docs, chat_history) ==
    << system_prompt >> \o document_section(academic_docs)
        \o history_section(chat_history) \o question_section(question)

\* the return after self.model.generate_content(full_prompt), or the except branch
generation_result(gen) ==
    IF gen.ok
    THEN [success |-> TRUE, response |-> gen.text, is_academic |-> TRUE]
    ELSE [success |-> FALSE, error |-> "Error generating response: " \o gen.text]

\* GeminiService.generate_response as one call: the dict it returns. cls[i] is the
\* outcome of the external call that classifies document_contents[i], gen the outcome
\* of the generation call; each is read only if the call is made.
generate_response(question, document_contents, chat_history, cls, gen) ==
    IF ~is_academic_question(question) THEN off_topic_result
    ELSE IF document_contents # << >> /\ documents_refused(partition_documents(document_contents, cls))
    THEN document_refusal_result
    ELSE generation_result(gen)

\* ------------------------------------------------------------ the service object
\* GeminiService.__init__: the fields of self
GeminiService_init ==
    [ model |-> "gemini-2.0-flash-exp",
      academic_checker_prompt |-> academic_checker_prompt,
      system_prompt |-> system_prompt ]

\* A classifier that writes to a field of self on every call.
self_after_classification_marked(self) ==
    [self EXCEPT !.academic_checker_prompt = @ \o "(seen)"]

\* self after is_academic_question or is_academic_content returned: neither method
\* assigns to a field
self_after_classification(self) == self

\* self.academic_checker_prompt + content[:2000], with the field read from self
classify_prompt_of(self, content) == self.academic_checker_prompt \o classified_text(content)

\* self.model.generate_content(prompt) of a deterministic model: the outcome an earlier
\* call got for the same prompt, any outcome for a prompt not seen before
deterministic_outcomes(calls, prompt, outcomes) ==
    IF \E i \in 1..Len(calls) : calls[i].prompt = prompt
    THEN { [ok |-> calls[i].ok, text |-> calls[i].text] : i \in { j \in 1..Len(calls) : calls[j].prompt = prompt } }
    ELSE outcomes

\* ------------------------------------------------------------ generate_chat_title
\* max_length: int = 50
DefaultTitleLen == 50

\* GeminiService.generate_chat_title, given the outcome of its external call
generate_chat_title(first_message, max_length, outcome) ==
    IF outcome.ok
    THEN LET title == str_strip(outcome.text) IN
         IF Len(title) > max_length THEN slice_to(title, max_length - 3) \o "..." ELSE title
    ELSE IF Len(first_message) > max_length
         THEN slice_to(first_message, max_length - 3) \o "..."
         ELSE first_message

\* try: ... return title / except Exception as e: return ... : how the method ends
title_exit(outcome) == IF outcome.ok THEN "returned" ELSE "fell_back"

\* ------------------------------------------------------------ summarize_document
\* max_length: int = 500
DefaultSummaryLen == 500

\* GeminiService.summarize_document, given the outcome of its external call
summarize_document(content, max_length, outcome) ==
    IF outcome.ok
    THEN LET summary == str_strip(outcome.text) IN
         IF Len(summary) > max_length THEN slice_to(summary, max_length - 3) \o "..." ELSE summary
    ELSE "Document summary unavailable: " \o outcome.text

\* The exception of the external call let out of the method.
summarize_exit_uncaught(outcome) == IF outcome.ok THEN "returned" ELSE "raised"

\* try: ... return summary / except Exception as e: return f"..." : how the method ends
summarize_exit(outcome) == IF outcome.ok THEN "returned" ELSE "fell_back"

\* ------------------------------------------------------------ state
VARIABLES
    cls_pc, cls_question, cls_verdict,          \* one is_academic_question call
    title_pc, title_in, title_out,              \* one generate_chat_title call
    sum_pc, sum_in, sum_out,                    \* one summarize_document call
    pair_pc, pair_in, pair_out, service,        \* classification calls in a row; the fields of self
    gen_pc, gen_in, gen_out,                    \* one generate_response call
    chats, messages, files,                     \* the tables of the store
    req, faults,                                \* the send_message requests; store errors so far
    resp,                                       \* the response of the last one-step chat request
    users, reset_tokens, auth                   \* the users and reset tokens; the auth requests

clsVars == << cls_pc, cls_question, cls_verdict >>
titleVars == << title_pc, title_in, title_out >>
sumVars == << sum_pc, sum_in, sum_out >>
pairVars == << pair_pc, pair_in, pair_out, service >>
genVars == << gen_pc, gen_in, gen_out >>
dbVars == << chats, messages, files >>
chatVars == << dbVars, req, faults, resp >>
authVars == << users, reset_tokens, auth >>
vars == << clsVars, titleVars, sumVars, pairVars, genVars, chatVars, authVars >>

\* ------------------------------------------------------------ inputs
\* Fragments of questions: keywords of both lists in both cases, pattern phrases,
\* a word that only contains a keyword, and neutral text.
QuestionPieces ==
    { "movie", "Game", "SOCIAL MEDIA", "gossip", "research", "Theory", "explain the", "analyze",
      "what is the", " ", "capital of France", "gamete" }

RECURSIVE PieceStrings(_)
PieceStrings(n) ==
    IF n = 0 THEN { "" }
    ELSE PieceStrings(n - 1) \cup { s \o p : s \in PieceStrings(n - 1), p \in QuestionPieces }

Questions == PieceStrings(MaxPieces)

DocTexts == { "lecture notes on thermodynamics", "my resume" }

ClassifyOutcomes ==
    { Reply("ACADEMIC"), Reply(" academic\n"), Reply("NON_ACADEMIC"), Reply("ACADEMIC."),
      Failure("quota exceeded") }

GenerateOutcomes == { Reply("Paris is the capital."), Failure("quota exceeded") }

RECURSIVE SeqsUpTo(_, _)
SeqsUpTo(S, n) ==
    IF n = 0 THEN { << >> }
    ELSE SeqsUpTo(S, n - 1) \cup { Append(q, x) : q \in SeqsUpTo(S, n - 1), x \in S }

SeqsOfLen(S, n) == { q \in SeqsUpTo(S, n) : Len(q) = n }

\* Turn i of a stored conversation: roles alternate, contents are pairwise distinct
Turn(i) ==
    [ role |-> IF i % 2 = 1 THEN "user" ELSE "assistant",
      content |-> "turn #" \o CharAt(LowerChars, i) ]

History(n) == [i \in 1..n |-> Turn(i)]

TitleTexts ==
    { "", "abc", "abcdefgh", "  What is entropy?  ",
      "A very long first message exceeding fifty characters total length here" }

TitleOutcomes ==
    { Reply("Entropy"), Reply("  Thermo  \n"),
      Reply("An overly long title the model returned despite the fifty character limit"),
      Failure("quota exceeded") }

TitleLengths == (0..MaxTitleLen) \cup { DefaultTitleLen }

SummaryTexts == { "", "lecture notes on thermodynamics" }

SummaryOutcomes ==
    { Reply("Heat."), Reply("  Heat and work. \n"), Reply(Pad(DefaultSummaryLen + 1)),
      Failure("quota exceeded"), Failure(Pad(DefaultSummaryLen)) }

SummaryLengths == (0..MaxSummaryLen) \cup { DefaultSummaryLen }

\* ------------------------------------------------------------ initial values
NoOutput ==
    [ result |-> [success |-> FALSE, error |-> ""], calls |-> << >>, context_parts |-> << >>,
      verdicts |-> << >>, academic_docs |-> << >>, non_academic_docs |-> << >> ]

NoInput == [question |-> "", document_contents |-> << >>, chat_history |-> << >>]

ClsIdle == cls_pc = "idle" /\ cls_question = "" /\ cls_verdict = FALSE
TitleIdle == title_pc = "idle" /\ title_in = [first_message |-> "", max_length |-> DefaultTitleLen] /\ title_out = ""
SumIdle == sum_pc = "idle" /\ sum_in = [content |-> "", max_length |-> DefaultSummaryLen] /\ sum_out = ""
GenIdle == gen_pc = "idle" /\ gen_in = NoInput /\ gen_out = NoOutput

NoVerdicts == [verdicts |-> << >>, calls |-> << >>]

PairIdle ==
    /\ pair_pc = "idle"
    /\ pair_in = [path |-> "question", texts |-> << "", "" >>]
    /\ pair_out = NoVerdicts
    /\ service = GeminiService_init

\* a request slot before its request arrives
NoRequest ==
    [ pc |-> "idle", user_id |-> "", chat_id |-> 0, blank |-> FALSE, after_delete |-> FALSE,
      content |-> "", last_order |-> 0,
      user_message |-> 0, response |-> "", generation |-> "none",
      assistant_message |-> 0, titled |-> FALSE, history |-> << >>, status |-> 0, error |-> "" ]

\* before any one-step chat request has been answered
NoResponse ==
    [ op |-> "none", user_id |-> "", target |-> 0, status |-> 0, body |-> "",
      chats |-> << >>, messages |-> << >>, files |-> << >>, extraction_success |-> FALSE ]

\* an auth request slot before its request arrives
NoAuthRequest ==
    [ pc |-> "idle", op |-> "none", username |-> "", email |-> "", password |-> "", token |-> 0,
      user_id |-> 0, valid |-> FALSE, status |-> 0, message |-> "" ]

\* the store as it is created: no chat, no message, no file
ChatIdle ==
    /\ chats = << >> /\ messages = << >> /\ files = << >>
    /\ req = [r \in 1..MaxReq |-> NoRequest]
    /\ faults = 0
    /\ resp = NoResponse

\* the users table as it is created, no reset token, no auth request
AuthIdle ==
    /\ users = << >> /\ reset_tokens = << >>
    /\ auth = [r \in 1..MaxAuth |-> NoAuthRequest]

\* ------------------------------------------------------------ is_academic_question applied
InitClassify ==
    /\ cls_pc = "called"
    /\ cls_question \in Questions
    /\ cls_verdict = FALSE
    /\ TitleIdle /\ SumIdle /\ PairIdle /\ GenIdle /\ ChatIdle /\ AuthIdle

ClassifyQuestion ==
    /\ cls_pc = "called"
    /\ cls_pc' = "returned"
    /\ cls_verdict' = classify_question(cls_question)
    /\ UNCHANGED << cls_question, titleVars, sumVars, pairVars, genVars, chatVars, authVars >>

NextClassify == ClassifyQuestion

SpecClassify == InitClassify /\ [][NextClassify]_vars

\* ------------------------------------------------------------ generate_chat_title applied
InitTitle ==
    /\ title_pc = "called"
    /\ title_in \in [first_message : TitleTexts, max_length : TitleLengths]
    /\ title_out = ""
    /\ ClsIdle /\ SumIdle /\ PairIdle /\ GenIdle /\ ChatIdle /\ AuthIdle

GenerateChatTitle ==
    /\ title_pc = "called"
    /\ \E outcome \in TitleOutcomes :
          /\ title_pc' = title_exit(outcome)
          /\ title_out' = generate_chat_title(title_in.first_message, title_in.max_length, outcome)
    /\ UNCHANGED << title_in, clsVars, sumVars, pairVars, genVars, chatVars, authVars >>

NextTitle == GenerateChatTitle

SpecTitle == InitTitle /\ [][NextTitle]_vars

\* ------------------------------------------------------------ the synthesizer applied
\* One call of generate_chat_title and one of summarize_document, in either order.
InitSynth ==
    /\ title_pc = "called"
    /\ title_in \in [first_message : TitleTexts, max_length : TitleLengths]
    /\ title_out = ""
    /\ sum_pc = "called"
    /\ sum_in \in [content : SummaryTexts, max_length : SummaryLengths]
    /\ sum_out = ""
    /\ ClsIdle /\ PairIdle /\ GenIdle /\ ChatIdle /\ AuthIdle

SummarizeDocument ==
    /\ sum_pc = "called"
    /\ \E outcome \in SummaryOutcomes :
          /\ sum_pc' = summarize_exit(outcome)
          /\ sum_out' = IF summarize_exit(outcome) = "raised" THEN sum_out
                        ELSE summarize_document(sum_in.content, sum_in.max_length, outcome)
    /\ UNCHANGED << sum_in, clsVars, titleVars, pairVars, genVars, chatVars, authVars >>

NextSynth == GenerateChatTitle \/ SummarizeDocument

SpecSynth == InitSynth /\ [][NextSynth]_vars

\* ------------------------------------------------------------ classification repeated
\* Two classification calls in a row on the same service object, both on the question
\* path or both on the document path, against a deterministic external model.
PairPaths == { "question", "content" }

InitPair ==
    /\ pair_pc = "called"
    /\ pair_in \in [path : PairPaths, texts : PairTexts \X PairTexts]
    /\ pair_out = NoVerdicts
    /\ service = GeminiService_init
    /\ ClsIdle /\ TitleIdle /\ SumIdle /\ GenIdle /\ ChatIdle /\ AuthIdle

\* the next call of the pair returns
PairReturn(k) == pair_pc' = IF k = Len(pair_in.texts) THEN "returned" ELSE "called"

\* self.is_academic_question(question)
PairClassifyQuestion ==
    /\ pair_pc = "called"
    /\ pair_in.path = "question"
    /\ LET k == Len(pair_out.verdicts) + 1 IN
          /\ pair_out' = [pair_out EXCEPT !.verdicts = Append(@, is_academic_question(pair_in.texts[k]))]
          /\ PairReturn(k)
    /\ service' = self_after_classification(service)
    /\ UNCHANGED << pair_in, clsVars, titleVars, sumVars, genVars, chatVars, authVars >>

\* self.is_academic_content(content)
PairClassifyContent ==
    /\ pair_pc = "called"
    /\ pair_in.path = "content"
    /\ LET k == Len(pair_out.verdicts) + 1
           prompt == classify_prompt_of(service, pair_in.texts[k])
       IN  /\ \E outcome \in deterministic_outcomes(pair_out.calls, prompt, ClassifyOutcomes) :
                 pair_out' = [ verdicts |-> Append(pair_out.verdicts, is_academic_content(pair_in.texts[k], outcome)),
                               calls |-> Append(pair_out.calls,
                                            [prompt |-> prompt, ok |-> outcome.ok, text |-> outcome.text]) ]
           /\ PairReturn(k)
    /\ service' = self_after_classification(service)
    /\ UNCHANGED << pair_in, clsVars, titleVars, sumVars, genVars, chatVars, authVars >>

NextPair == PairClassifyQuestion \/ PairClassifyContent

SpecPair == InitPair /\ [][NextPair]_vars

\* ------------------------------------------------------------ generate_response applied
Init == ClsIdle /\ TitleIdle /\ SumIdle /\ PairIdle /\ GenIdle /\ ChatIdle /\ AuthIdle

\* The call entered with the return on an off-topic question left out.
GenCall_ungated ==
    /\ gen_pc = "idle"
    /\ \E question \in GenQuestions, n \in 0..MaxDocs, h \in 0..MaxHist :
       \E document_contents \in SeqsOfLen(DocTexts, n) :
          /\ gen_in' = [question |-> question, document_contents |-> document_contents,
                        chat_history |-> History(h)]
          /\ gen_pc' = "documents"
          /\ gen_out' = [NoOutput EXCEPT !.context_parts = << system_prompt >>]
    /\ UNCHANGED << clsVars, titleVars, sumVars, pairVars, chatVars, authVars >>

\* generate_response is entered and the question is classified (no external call)
GenCall ==
    /\ gen_pc = "idle"
    /\ \E question \in GenQuestions, n \in 0..MaxDocs, h \in 0..MaxHist :
       \E document_contents \in SeqsOfLen(DocTexts, n) :
          /\ gen_in' = [question |-> question, document_contents |-> document_contents,
                        chat_history |-> History(h)]
          /\ IF ~is_academic_question(question)
             THEN gen_pc' = "returned" /\ gen_out' = [NoOutput EXCEPT !.result = off_topic_result]
             ELSE gen_pc' = "documents" /\ gen_out' = [NoOutput EXCEPT !.context_parts = << system_prompt >>]
    /\ UNCHANGED << clsVars, titleVars, sumVars, pairVars, chatVars, authVars >>

\* the extracts are classified, one external call each, and the context is built
GenDocuments ==
    /\ gen_pc = "documents"
    /\ \E cls \in SeqsOfLen(ClassifyOutcomes, Len(gen_in.document_contents)) :
          LET parts == partition_documents(gen_in.document_contents, cls)
              classified == [gen_out EXCEPT !.calls = classify_calls(gen_in.document_contents, cls),
                                            !.verdicts = parts.verdicts,
                                            !.academic_docs = parts.academic_docs,
                                            !.non_academic_docs = parts.non_academic_docs]
          IN  IF documents_refused(parts)
              THEN /\ gen_pc' = "returned"
                   /\ gen_out' = [classified EXCEPT !.result = document_refusal_result]
              ELSE /\ gen_pc' = "prompted"
                   /\ gen_out' = [classified EXCEPT !.context_parts =
                            build_context(gen_in.question, parts.academic_docs, gen_in.chat_history)]
    /\ UNCHANGED << gen_in, clsVars, titleVars, sumVars, pairVars, chatVars, authVars >>

\* The generation call issued again when it failed.
GenGenerate_retry ==
    /\ gen_pc = "prompted"
    /\ \E gen \in GenerateOutcomes :
          /\ gen_out' = [gen_out EXCEPT !.result = generation_result(gen),
                                        !.calls = @ \o << generate_call(gen_out.context_parts, gen) >>]
          /\ gen_pc' = IF gen.ok THEN "returned" ELSE "prompted"
    /\ UNCHANGED << gen_in, clsVars, titleVars, sumVars, pairVars, chatVars, authVars >>

\* self.model.generate_content(full_prompt): the reply is returned, or the exception
\* is turned into a failed result
GenGenerate ==
    /\ gen_pc = "prompted"
    /\ \E gen \in GenerateOutcomes :
          gen_out' = [gen_out EXCEPT !.result = generation_result(gen),
                                     !.calls = @ \o << generate_call(gen_out.context_parts, gen) >>]
    /\ gen_pc' = "returned"
    /\ UNCHANGED << gen_in, clsVars, titleVars, sumVars, pairVars, chatVars, authVars >>

\* the service keeps nothing of a call: the next call starts as the first did
GenerateReturn ==
    /\ gen_pc = "returned"
    /\ gen_pc' = "idle"
    /\ gen_in' = NoInput
    /\ gen_out' = NoOutput
    /\ UNCHANGED << clsVars, titleVars, sumVars, pairVars, chatVars, authVars >>

Next == GenCall \/ GenDocuments \/ GenGenerate \/ GenerateReturn

Spec == Init /\ [][Next]_vars

\* ------------------------------------------------------------ an extract without text
\* generate_response is entered with document_contents = [""]
GenCallEmptyExtract ==
    /\ gen_pc = "idle"
    /\ \E question \in GenQuestions, h \in 0..MaxHist :
          /\ gen_in' = [question |-> question, document_contents |-> << "" >>,
                        chat_history |-> History(h)]
          /\ IF ~is_academic_question(question)
             THEN gen_pc' = "returned" /\ gen_out' = [NoOutput EXCEPT !.result = off_topic_result]
             ELSE gen_pc' = "documents" /\ gen_out' = [NoOutput EXCEPT !.context_parts = << system_prompt >>]
    /\ UNCHANGED << clsVars, titleVars, sumVars, pairVars, chatVars, authVars >>

NextEmptyExtract == GenCallEmptyExtract \/ GenDocuments \/ GenGenerate \/ GenerateReturn

SpecEmptyExtract == Init /\ [][NextEmptyExtract]_vars

\* ------------------------------------------------------------ the store
Users == { "u1" }

\* The chat looked up by its id alone.
chat_found_any_user(chat_id, user_id) == chat_id \in 1..Len(chats)

\* table('chats').select('*').eq('id', chat_id).eq('user_id', user_id): is there a row
chat_found(chat_id, user_id) ==
    chat_id \in 1..Len(chats) /\ chats[chat_id].user_id = user_id

\* delete_chat has set is_active = False on the chat
chat_deleted(chat_id) == chat_id \in 1..Len(chats) /\ ~chats[chat_id].is_active

\* the rows of table('messages') with this chat_id (their positions in creation order)
chat_message_ids(chat_id) == { i \in 1..Len(messages) : messages[i].chat_id = chat_id }

\* SupabaseService.get_last_message_order without an exception:
\* order('message_order', desc=True).limit(1), or 0 when the chat has no message
get_last_message_order(chat_id) ==
    IF chat_message_ids(chat_id) = {} THEN 0
    ELSE LET i == CHOOSE i \in chat_message_ids(chat_id) :
                     \A j \in chat_message_ids(chat_id) : messages[j].message_order <= messages[i].message_order
         IN  messages[i].message_order

\* The assistant's message given the order of the user's message.
assistant_message_order_same(last_order) == last_order + 1

\* user_message_order = last_order + 1 ; assistant_message_order = last_order + 2
user_message_order(last_order) == last_order + 1
assistant_message_order(last_order) == last_order + 2

\* order('message_order'): the orders in which the rows of ids can come back, rows of
\* equal message_order in either order
RECURSIVE ordered_by_message_order(_)
ordered_by_message_order(ids) ==
    IF ids = {} THEN { << >> }
    ELSE UNION { { << i >> \o rest : rest \in ordered_by_message_order(ids \ { i }) } :
                 i \in { i \in ids : \A j \in ids : messages[i].message_order <= messages[j].message_order } }

\* the row create_message inserts
message_row(chat_id, content, role, message_order, r) ==
    [ chat_id |-> chat_id, content |-> content, role |-> role, message_order |-> message_order,
      request |-> r ]

\* table('files') ... eq('chat_id').eq('user_id').order('created_at', desc=True), then
\* the processed_content of the records that have one
chat_document_contents(chat_id, user_id) ==
    LET ids == { i \in 1..Len(files) : files[i].chat_id = chat_id /\ files[i].user_id = user_id }
        RECURSIVE newest_first(_)
        newest_first(S) ==
            IF S = {} THEN << >>
            ELSE LET i == CHOOSE i \in S : \A j \in S : j <= i
                 IN  (IF files[i].processed_content # "" THEN << files[i].processed_content >> ELSE << >>)
                         \o newest_first(S \ { i })
    IN  newest_first(ids)

\* ------------------------------------------------------------ requests
\* request bodies of send_message: without 'content', blank, and two messages
SendInputs ==
    { [has_content |-> FALSE, content |-> ""], [has_content |-> TRUE, content |-> "  \n"],
      [has_content |-> TRUE, content |-> " explain entropy "],
      [has_content |-> TRUE, content |-> "movie night"] }

\* request bodies of create_chat
CreateInputs == { [has_title |-> FALSE, title |-> "", has_first |-> FALSE, first_message |-> ""] }

ChatTitleOutcomes == { Reply("Entropy"), Failure("quota exceeded") }
ChatGenerateOutcomes == { Reply("Entropy measures disorder."), Failure("quota exceeded") }

\* n calls of the store raise (the client's except branch), within the budget
Faults(n) == faults + n <= MaxFaults /\ faults' = faults + n
Raised(f) == IF f THEN 1 ELSE 0

\* the request returns: its response is kept, its local variables are gone
Returned(q, status, error) ==
    [q EXCEPT !.pc = "done", !.status = status, !.error = error,
              !.content = "", !.last_order = 0, !.response = ""]

Finish(r, status, error) == req' = [req EXCEPT ![r] = Returned(req[r], status, error)]

\* create_chat: the title from the body, or generated from first_message
CreateChatBy(issuers) ==
    /\ Len(chats) < MaxChats
    /\ \E user_id \in issuers, data \in CreateInputs, f \in BOOLEAN :
       \E title \in { IF data.has_first THEN generate_chat_title(data.first_message, DefaultTitleLen, outcome)
                      ELSE IF data.has_title THEN data.title ELSE "New Chat" :
                         outcome \in ChatTitleOutcomes } :
              /\ Faults(Raised(f))
              /\ chats' = IF f THEN chats
                          ELSE Append(chats, [user_id |-> user_id, title |-> title, is_active |-> TRUE])
    /\ UNCHANGED << messages, files, req, clsVars, titleVars, sumVars, pairVars, genVars, resp, authVars >>

CreateChat == CreateChatBy(Users)

\* the body has no 'content', or one that is empty once stripped
blank_body(data) == ~data.has_content \/ str_strip(data.content) = ""

\* The body let through whatever its content.
validation_error_skipped(data) == ""

\* if 'content' not in data ... / content = data['content'].strip(); if not content ... :
\* the error of the 400 response, "" when the body passes
validation_error(data) ==
    IF ~data.has_content THEN "Message content is required"
    ELSE IF str_strip(data.content) = "" THEN "Message content cannot be empty"
    ELSE ""

\* send_message up to last_order: the body is validated, get_chat_by_id checks the
\* owner, get_last_message_order reads the last order (0 when it raises)
SendBeginBy(r, issuers) ==
    /\ req[r].pc = "idle"
    /\ r > 1 => req[r - 1].pc # "idle"
    /\ \E user_id \in issuers, chat_id \in 1..MaxChats, data \in SendInputs, f \in BOOLEAN, g \in BOOLEAN :
          LET content == str_strip(data.content)
              arrived == [req EXCEPT ![r].user_id = user_id, ![r].chat_id = chat_id,
                                     ![r].blank = blank_body(data),
                                     ![r].after_delete = chat_deleted(chat_id)]
          IN  IF validation_error(data) # ""
              THEN /\ ~f /\ ~g /\ Faults(0)
                   /\ req' = [arrived EXCEPT ![r] = Returned(@, 400, validation_error(data))]
              ELSE IF f \/ ~chat_found(chat_id, user_id)
              THEN /\ ~g /\ Faults(Raised(f))
                   /\ req' = [arrived EXCEPT ![r] = Returned(@, 404, "Chat not found")]
              ELSE /\ Faults(Raised(g))
                   /\ req' = [arrived EXCEPT ![r].pc = "save_user", ![r].content = content,
                                ![r].last_order = IF g THEN 0 ELSE get_last_message_order(chat_id)]
    /\ UNCHANGED << dbVars, clsVars, titleVars, sumVars, pairVars, genVars, resp, authVars >>

SendBegin(r) == SendBeginBy(r, Users)

\* create_message(chat_id, content, 'user', user_message_order)
SendSaveUser(r) ==
    /\ req[r].pc = "save_user"
    /\ \E f \in BOOLEAN :
          /\ Faults(Raised(f))
          /\ IF f
             THEN /\ Finish(r, 500, "Failed to save user message")
                  /\ UNCHANGED messages
             ELSE /\ messages' = Append(messages,
                        message_row(req[r].chat_id, req[r].content, "user",
                                    user_message_order(req[r].last_order), r))
                  /\ req' = [req EXCEPT ![r].pc = "generate", ![r].user_message = Len(messages) + 1]
    /\ UNCHANGED << chats, files, clsVars, titleVars, sumVars, pairVars, genVars, resp, authVars >>

\* get_chat_messages(chat_id, user_id): the rows in order of message_order, or a failure
get_chat_messages(chat_id, user_id, raised) ==
    IF raised \/ ~chat_found(chat_id, user_id) THEN { [success |-> FALSE, data |-> << >>] }
    ELSE { [success |-> TRUE, data |-> rows] : rows \in ordered_by_message_order(chat_message_ids(chat_id)) }

\* the turns generate_response is given: role and content of the rows read
history_turns(rows) ==
    [i \in 1..Len(rows) |-> [role |-> messages[rows[i]].role, content |-> messages[rows[i]].content]]

\* The failed result taken for a reply.
generation_passed_unchecked(ai_response) == TRUE

\* if not ai_response['success']: return 500
generation_passed(ai_response) == ai_response.success

\* get_chat_messages and chat_history[:-1], get_chat_files, generate_response, and the
\* return on a failed generation; with record, the rows passed as history are kept
SendGenerateStep(r, record) ==
    /\ req[r].pc = "generate"
    /\ LET read(f, g) ==
              { [messages_result |-> m,
                 document_contents |-> IF g THEN << >>
                                       ELSE chat_document_contents(req[r].chat_id, req[r].user_id)] :
                    m \in get_chat_messages(req[r].chat_id, req[r].user_id, f) }
           answered(f, g, d) ==
              LET chat_history == IF d.messages_result.success THEN d.messages_result.data ELSE << >>
              IN  { [raised |-> Raised(f) + Raised(g),
                     passed |-> IF record THEN slice_drop_last(chat_history) ELSE << >>,
                     ai_response |-> generate_response(req[r].content, d.document_contents,
                                         history_turns(slice_drop_last(chat_history)), cls, gen)] :
                        cls \in SeqsOfLen(ClassifyOutcomes, Len(d.document_contents)),
                        gen \in ChatGenerateOutcomes }
           outcomes == UNION { UNION { answered(f, g, d) : d \in read(f, g) } :
                                  f \in BOOLEAN, g \in BOOLEAN }
       IN  \E step \in outcomes :
              LET passed == step.passed
                  ai_response == step.ai_response
              IN  /\ Faults(step.raised)
                  /\ IF ~generation_passed(ai_response)
                     THEN req' = [req EXCEPT ![r] = Returned([req[r] EXCEPT !.generation = "failed",
                                                                            !.history = passed],
                                                             500, ai_response.error)]
                     ELSE req' = [req EXCEPT ![r].pc = "save_assistant",
                                             ![r].history = passed,
                                             ![r].generation = IF ai_response.success THEN "succeeded" ELSE "failed",
                                             ![r].response = IF ai_response.success THEN ai_response.response ELSE ""]
    /\ UNCHANGED << dbVars, clsVars, titleVars, sumVars, pairVars, genVars, resp, authVars >>

SendGenerate(r) == SendGenerateStep(r, FALSE)

\* create_message(chat_id, ai_response['response'], 'assistant', assistant_message_order);
\* a request that is not the chat's first returns 201 with both messages
SendSaveAssistant(r) ==
    /\ req[r].pc = "save_assistant"
    /\ \E f \in BOOLEAN :
          /\ Faults(Raised(f))
          /\ IF f
             THEN /\ Finish(r, 500, "Failed to save assistant message")
                  /\ UNCHANGED messages
             ELSE /\ messages' = Append(messages,
                        message_row(req[r].chat_id, req[r].response, "assistant",
                                    assistant_message_order(req[r].last_order), r))
                  /\ LET saved == [req[r] EXCEPT !.assistant_message = Len(messages) + 1]
                     IN  req' = [req EXCEPT ![r] = IF user_message_order(req[r].last_order) = 1
                                                   THEN [saved EXCEPT !.pc = "title"]
                                                   ELSE Returned(saved, 201, "")]
    /\ UNCHANGED << chats, files, clsVars, titleVars, sumVars, pairVars, genVars, resp, authVars >>

\* if user_message_order == 1: generate_chat_title and update_chat_title; return 201
SendTitle(r) ==
    /\ req[r].pc = "title"
    /\ \E f \in BOOLEAN :
       \E updated \in { IF f \/ ~chat_found(req[r].chat_id, req[r].user_id) THEN chats
                        ELSE [chats EXCEPT ![req[r].chat_id].title =
                                  generate_chat_title(req[r].content, DefaultTitleLen, outcome)] :
                           outcome \in ChatTitleOutcomes } :
          /\ Faults(Raised(f))
          /\ chats' = updated
    /\ req' = [req EXCEPT ![r] = Returned([req[r] EXCEPT !.titled = TRUE], 201, "")]
    /\ UNCHANGED << messages, files, clsVars, titleVars, sumVars, pairVars, genVars, resp, authVars >>

NextChat ==
    \/ CreateChat
    \/ \E r \in 1..MaxReq :
          \/ SendBegin(r)
          \/ SendSaveUser(r)
          \/ SendGenerate(r)
          \/ SendSaveAssistant(r)
          \/ SendTitle(r)

SpecChat == Init /\ [][NextChat]_vars

\* ------------------------------------------------------------ files
\* MAX_CONTENT_LENGTH = 20 * 1024 * 1024
MAX_CONTENT_LENGTH == 20 * 1024 * 1024

ALLOWED_EXTENSIONS == { "pdf", "doc", "docx", "ppt", "pptx", "jpg", "jpeg", "png", "gif" }

\* filename.rsplit('.', 1)[1] of a filename with a '.': the text after the last one
after_last_dot(filename) ==
    LET dots == { i \in 1..Len(filename) : CharAt(filename, i) = "." }
        last == CHOOSE i \in dots : \A j \in dots : j <= i
    IN  SubSeq(filename, last + 1, Len(filename))

\* FileProcessor.get_file_type
get_file_type(filename) ==
    IF ~str_contains(filename, ".") THEN "unknown" ELSE str_lower(after_last_dot(filename))

\* FileProcessor.is_allowed_file
is_allowed_file(filename) ==
    str_contains(filename, ".") /\ get_file_type(filename) \in ALLOWED_EXTENSIONS

\* FileProcessor.validate_file: the size first, then the extension
validate_file(file_size, filename) ==
    IF file_size > MAX_CONTENT_LENGTH
    THEN [valid |-> FALSE,
          error |-> "File size exceeds maximum limit of "
                        \o ToString(MAX_CONTENT_LENGTH \div (1024 * 1024)) \o "MB"]
    ELSE IF ~is_allowed_file(filename)
    THEN [valid |-> FALSE, error |-> "File type not supported. Supported types: PDF, Word (.doc, .docx), "
                        \o "PowerPoint (.ppt, .pptx), Images (.jpg, .jpeg, .png, .gif)"]
    ELSE [valid |-> TRUE, error |-> ""]

\* the extract_text_from_* / process_image method of the file type given what the
\* document library does with the bytes: the text, or the exception re-raised
extract_text(file_type, filename, parsed) ==
    CASE file_type = "pdf" ->
            IF parsed.ok THEN Reply(str_strip(parsed.text))
            ELSE Failure("Error extracting text from PDF: " \o parsed.text)
      [] file_type = "docx" ->
            IF parsed.ok THEN Reply(str_strip(parsed.text))
            ELSE Failure("Error extracting text from DOCX: " \o parsed.text)
      [] file_type = "pptx" ->
            IF parsed.ok THEN Reply(str_strip(parsed.text))
            ELSE Failure("Error extracting text from PPTX: " \o parsed.text)
      [] file_type = "doc" -> Reply("DOC file processing requires additional setup. "
                                       \o "Please convert to DOCX format for better support.")
      [] file_type = "ppt" -> Reply("PPT file processing requires additional setup. "
                                       \o "Please convert to PPTX format for better support.")
      [] file_type \in { "jpg", "jpeg", "png", "gif" } ->
            IF parsed.ok THEN Reply("Image file: " \o filename \o "\n" \o parsed.text)
            ELSE Failure("Error processing image: " \o parsed.text)
      [] OTHER -> Failure("Unsupported file type: " \o file_type)

\* the text stored for a file without extractable text
no_extractable_content(filename) ==
    "No extractable content found in " \o filename
        \o ". The file may be empty, corrupted, or contain only images/graphics."

\* FileProcessor.extract_content
extract_content(filename, parsed) ==
    LET extracted == extract_text(get_file_type(filename), filename, parsed) IN
    IF extracted.ok
    THEN [success |-> TRUE, error |-> "",
          content |-> IF extracted.text = "" \/ str_strip(extracted.text) = ""
                      THEN no_extractable_content(filename) ELSE extracted.text]
    ELSE [success |-> FALSE, error |-> extracted.text, content |-> ""]

\* the row create_file_record inserts: processed_content is not set (here "")
file_row(chat_id, user_id, filename) ==
    [chat_id |-> chat_id, user_id |-> user_id, filename |-> filename, processed_content |-> ""]

\* table('files').select('*').eq('chat_id').eq('user_id').order('created_at', desc=True)
get_chat_files(chat_id, user_id) ==
    LET RECURSIVE newest_first(_)
        newest_first(n) ==
            IF n = 0 THEN << >>
            ELSE (IF files[n].chat_id = chat_id /\ files[n].user_id = user_id
                  THEN << files[n] >> ELSE << >>) \o newest_first(n - 1)
    IN  newest_first(Len(files))

\* table('chats').select('*').eq('user_id').eq('is_active', True), in creation order
get_user_chats(user_id) ==
    LET RECURSIVE rows(_)
        rows(n) ==
            IF n = 0 THEN << >>
            ELSE rows(n - 1) \o (IF chats[n].user_id = user_id /\ chats[n].is_active
                                  THEN << chats[n] >> ELSE << >>)
    IN  rows(Len(chats))

\* ------------------------------------------------------------ one-step chat requests
\* the users that hold a token
AllUsers == { "u1", "u2" }

\* uploads: no 'file' part, an empty filename, documents, an image, a text file, a
\* name without extension, a file over the size limit (names secure_filename keeps)
UploadInputs ==
    { [has_file |-> FALSE, filename |-> "", file_size |-> 0],
      [has_file |-> TRUE, filename |-> "", file_size |-> 1],
      [has_file |-> TRUE, filename |-> "notes.pdf", file_size |-> 1],
      [has_file |-> TRUE, filename |-> "old.DOC", file_size |-> 1],
      [has_file |-> TRUE, filename |-> "readme.txt", file_size |-> 1],
      [has_file |-> TRUE, filename |-> "notes", file_size |-> 1],
      [has_file |-> TRUE, filename |-> "scan.pdf", file_size |-> MAX_CONTENT_LENGTH + 1] }

\* what the document library makes of the bytes
ParseOutcomes ==
    { Reply("lecture notes on thermodynamics"), Reply(""), Reply(" \n"),
      Failure("cannot open broken document") }

\* request bodies of update_chat
UpdateInputs ==
    { [has_title |-> FALSE, title |-> ""], [has_title |-> TRUE, title |-> "  "],
      [has_title |-> TRUE, title |-> " Thermo "] }

Answer(op, user_id, target, status, body) ==
    [NoResponse EXCEPT !.op = op, !.user_id = user_id, !.target = target,
                       !.status = status, !.body = body]

\* upload_file, for the uploads and the outcomes of the document library given
UploadFileWith(issuers, uploads, outcomes) ==
    /\ Len(files) < MaxFiles
    /\ \E user_id \in issuers, chat_id \in 1..MaxChats, upload \in uploads,
          parsed \in outcomes, f \in BOOLEAN, g \in BOOLEAN, h \in BOOLEAN :
          LET filename == upload.filename
              validation_result == validate_file(upload.file_size, filename)
              content_result == extract_content(filename, parsed)
              file_record == file_row(chat_id, user_id, filename)
              processed == [file_record EXCEPT !.processed_content = content_result.content]
              early(status, body) ==
                  /\ ~g /\ ~h /\ parsed = CHOOSE o \in outcomes : TRUE
                  /\ resp' = Answer("upload_file", user_id, chat_id, status, body)
                  /\ UNCHANGED files
          IN  IF f \/ ~chat_found(chat_id, user_id)
              THEN Faults(Raised(f)) /\ early(404, "Chat not found")
              ELSE IF ~upload.has_file THEN Faults(0) /\ early(400, "No file provided")
              ELSE IF filename = "" THEN Faults(0) /\ early(400, "No file selected")
              ELSE IF ~validation_result.valid THEN Faults(0) /\ early(400, validation_result.error)
              ELSE IF g
              THEN /\ ~h /\ Faults(1)
                   /\ resp' = Answer("upload_file", user_id, chat_id, 500, "Failed to create file record")
                   /\ UNCHANGED files
              ELSE /\ h => content_result.success
                   /\ Faults(Raised(h))
                   /\ files' = Append(files, IF content_result.success /\ ~h THEN processed
                                             ELSE file_record)
                   /\ resp' = [Answer("upload_file", user_id, chat_id, 201, content_result.error)
                                  EXCEPT !.files = << IF content_result.success THEN processed
                                                      ELSE file_record >>,
                                         !.extraction_success = content_result.success]
    /\ UNCHANGED << chats, messages, req, clsVars, titleVars, sumVars, pairVars, genVars, authVars >>

UploadFileBy(issuers) == UploadFileWith(issuers, UploadInputs, ParseOutcomes)

\* get_chat
GetChatBy(issuers) ==
    /\ \E user_id \in issuers, chat_id \in 1..MaxChats, f \in BOOLEAN, g \in BOOLEAN, h \in BOOLEAN :
          IF f \/ ~chat_found(chat_id, user_id)
          THEN /\ ~g /\ ~h /\ Faults(Raised(f))
               /\ resp' = Answer("get_chat", user_id, chat_id, 404, "Chat not found")
          ELSE \E messages_result \in get_chat_messages(chat_id, user_id, g) :
                  IF ~messages_result.success
                  THEN /\ ~h /\ Faults(Raised(g))
                       /\ resp' = Answer("get_chat", user_id, chat_id, 500, "store error")
                  ELSE /\ Faults(Raised(h))
                       /\ resp' = [Answer("get_chat", user_id, chat_id, 200, "")
                                      EXCEPT !.chats = << chats[chat_id] >>,
                                             !.messages = [i \in 1..Len(messages_result.data) |->
                                                              messages[messages_result.data[i]]],
                                             !.files = IF h THEN << >>
                                                       ELSE get_chat_files(chat_id, user_id)]
    /\ UNCHANGED << dbVars, req, clsVars, titleVars, sumVars, pairVars, genVars, authVars >>

\* get_user_chats
GetUserChatsBy(issuers) ==
    /\ \E user_id \in issuers, f \in BOOLEAN :
          /\ Faults(Raised(f))
          /\ resp' = IF f THEN Answer("get_user_chats", user_id, 0, 500, "store error")
                     ELSE [Answer("get_user_chats", user_id, 0, 200, "")
                             EXCEPT !.chats = get_user_chats(user_id)]
    /\ UNCHANGED << dbVars, req, clsVars, titleVars, sumVars, pairVars, genVars, authVars >>

\* update_chat; update_chat_title fails on response.data[0] when no row matches
UpdateChatBy(issuers) ==
    /\ \E user_id \in issuers, chat_id \in 1..MaxChats, data \in UpdateInputs, f \in BOOLEAN :
          LET title == str_strip(data.title) IN
          IF ~data.has_title
          THEN /\ ~f /\ Faults(0) /\ UNCHANGED chats
               /\ resp' = Answer("update_chat", user_id, chat_id, 400, "Title is required")
          ELSE IF title = ""
          THEN /\ ~f /\ Faults(0) /\ UNCHANGED chats
               /\ resp' = Answer("update_chat", user_id, chat_id, 400, "Title cannot be empty")
          ELSE IF f \/ ~chat_found(chat_id, user_id)
          THEN /\ Faults(Raised(f)) /\ UNCHANGED chats
               /\ resp' = Answer("update_chat", user_id, chat_id, 500,
                                 IF f THEN "store error" ELSE "list index out of range")
          ELSE /\ Faults(0)
               /\ chats' = [chats EXCEPT ![chat_id].title = title]
               /\ resp' = [Answer("update_chat", user_id, chat_id, 200, "")
                              EXCEPT !.chats = << [chats[chat_id] EXCEPT !.title = title] >>]
    /\ UNCHANGED << messages, files, req, clsVars, titleVars, sumVars, pairVars, genVars, authVars >>

\* SupabaseService.delete_chat without an exception: is_active = False on the rows
\* with this id and user_id
delete_chat(chat_id, user_id) ==
    IF chat_found(chat_id, user_id) THEN [chats EXCEPT ![chat_id].is_active = FALSE] ELSE chats

\* delete_chat
DeleteChatBy(issuers) ==
    /\ \E user_id \in issuers, chat_id \in 1..MaxChats, f \in BOOLEAN :
          /\ Faults(Raised(f))
          /\ chats' = IF f THEN chats ELSE delete_chat(chat_id, user_id)
          /\ resp' = IF f THEN Answer("delete_chat", user_id, chat_id, 500, "store error")
                     ELSE Answer("delete_chat", user_id, chat_id, 200, "Chat deleted successfully")
    /\ UNCHANGED << messages, files, req, clsVars, titleVars, sumVars, pairVars, genVars, authVars >>

\* SupabaseService.delete_file_record without an exception: the rows with this id and
\* user_id are deleted
delete_file_record(file_id, user_id) ==
    IF file_id \in 1..Len(files) /\ files[file_id].user_id = user_id
    THEN SubSeq(files, 1, file_id - 1) \o SubSeq(files, file_id + 1, Len(files))
    ELSE files

\* delete_file
DeleteFileBy(issuers) ==
    /\ \E user_id \in issuers, file_id \in 1..MaxFiles, f \in BOOLEAN :
          /\ Faults(Raised(f))
          /\ files' = IF f THEN files ELSE delete_file_record(file_id, user_id)
          /\ resp' = IF f THEN Answer("delete_file", user_id, file_id, 500, "store error")
                     ELSE Answer("delete_file", user_id, file_id, 200, "File deleted successfully")
    /\ UNCHANGED << chats, messages, req, clsVars, titleVars, sumVars, pairVars, genVars, authVars >>

\* ------------------------------------------------------------ uploads of one user
NextUpload ==
    \/ CreateChatBy(Users)
    \/ UploadFileBy(Users)
    \/ GetChatBy(Users)
    \/ UpdateChatBy(Users)
    \/ DeleteFileBy(Users)

SpecUpload == Init /\ [][NextUpload]_vars

\* ------------------------------------------------------------ a chat and its deletion
\* the steps of the send_message request in slot r
SendBy(r, issuers) ==
    \/ SendBeginBy(r, issuers)
    \/ SendSaveUser(r)
    \/ SendGenerate(r)
    \/ SendSaveAssistant(r)
    \/ SendTitle(r)

NextDelete ==
    \/ CreateChatBy(Users)
    \/ DeleteChatBy(Users)
    \/ GetUserChatsBy(Users)
    \/ GetChatBy(Users)
    \/ UploadFileBy(Users)
    \/ SendBy(1, Users)

SpecDelete == Init /\ [][NextDelete]_vars

\* ------------------------------------------------------------ two users
\* an upload that passes validation and a document the library reads
PdfUpload == [has_file |-> TRUE, filename |-> "notes.pdf", file_size |-> 1]
PdfText == Reply("lecture notes on thermodynamics")

NextOwn ==
    \/ CreateChatBy(AllUsers)
    \/ UploadFileWith(AllUsers, { PdfUpload }, { PdfText })
    \/ GetChatBy(AllUsers)
    \/ UpdateChatBy(AllUsers)
    \/ DeleteChatBy(AllUsers)
    \/ DeleteFileBy(AllUsers)
    \/ SendBy(1, AllUsers)

SpecOwn == Init /\ [][NextOwn]_vars

\* ------------------------------------------------------------ auth: validation
\* re.search(r"[A-Z]", password), re.search(r"[a-z]", password)
has_uppercase(password) == \E i \in 1..Len(password) : HasChar(UpperChars, CharAt(password, i))
has_lowercase(password) == \E i \in 1..Len(password) : HasChar(LowerChars, CharAt(password, i))

\* re.search(r"\\d", password): the raw pattern is an escaped backslash followed by 'd',
\* so it matches the two characters backslash, 'd'
search_number(password) == str_contains(password, "\\d")

\* validate_password: (valid, message)
validate_password(password) ==
    IF Len(password) < 8
    THEN [valid |-> FALSE, message |-> "Password must be at least 8 characters long"]
    ELSE IF ~has_uppercase(password)
    THEN [valid |-> FALSE, message |-> "Password must contain at least one uppercase letter"]
    ELSE IF ~has_lowercase(password)
    THEN [valid |-> FALSE, message |-> "Password must contain at least one lowercase letter"]
    ELSE IF ~search_number(password)
    THEN [valid |-> FALSE, message |-> "Password must contain at least one number"]
    ELSE [valid |-> TRUE, message |-> "Password is valid"]

\* re.match(r"^[a-zA-Z0-9_]+$", username) on a stripped username
username_pattern(username) ==
    /\ Len(username) >= 1
    /\ \A i \in 1..Len(username) :
          \/ HasChar(LowerChars, CharAt(username, i))
          \/ HasChar(UpperChars, CharAt(username, i))
          \/ HasChar(DigitChars, CharAt(username, i))

\* validate_username: (valid, message)
validate_username(username) ==
    IF Len(username) < 3
    THEN [valid |-> FALSE, message |-> "Username must be at least 3 characters long"]
    ELSE IF Len(username) > 50
    THEN [valid |-> FALSE, message |-> "Username must be no more than 50 characters long"]
    ELSE IF ~username_pattern(username)
    THEN [valid |-> FALSE, message |-> "Username can only contain letters, numbers, and underscores"]
    ELSE [valid |-> TRUE, message |-> "Username is valid"]

\* validate_email (validators.email) on the addresses used here: one '@' with a local
\* part before it and a dotted domain after it, no blank
validate_email(email) ==
    LET ats == { i \in 1..Len(email) : CharAt(email, i) = "@" } IN
    /\ Cardinality(ats) = 1
    /\ ~str_contains(email, " ")
    /\ LET at == CHOOSE i \in ats : TRUE
           domain == SubSeq(email, at + 1, Len(email))
       IN  /\ at > 1
           /\ str_contains(domain, ".")
           /\ Len(domain) >= 3
           /\ CharAt(domain, 1) # "." /\ CharAt(domain, Len(domain)) # "."

\* ------------------------------------------------------------ validate_password applied
PasswordPieces == { "abc", "XYZ", "12", "\\d", "Test", "pass", "word", "123", "-", "d" }

RECURSIVE PasswordStrings(_)
PasswordStrings(n) ==
    IF n = 0 THEN { "" }
    ELSE PasswordStrings(n - 1) \cup { s \o q : s \in PasswordStrings(n - 1), q \in PasswordPieces }

Passwords == PasswordStrings(MaxPasswordPieces) \cup { "Testpassword123" }

InitPassword ==
    /\ ClsIdle /\ TitleIdle /\ SumIdle /\ PairIdle /\ GenIdle /\ ChatIdle
    /\ users = << >> /\ reset_tokens = << >>
    /\ \E password \in Passwords :
          auth = [r \in 1..MaxAuth |->
                    IF r = 1 THEN [NoAuthRequest EXCEPT !.pc = "called", !.op = "validate_password",
                                                        !.password = password]
                    ELSE NoAuthRequest]

ValidatePassword ==
    /\ auth[1].pc = "called" /\ auth[1].op = "validate_password"
    /\ auth' = [auth EXCEPT ![1].pc = "returned",
                            ![1].valid = validate_password(auth[1].password).valid,
                            ![1].message = validate_password(auth[1].password).message]
    /\ UNCHANGED << clsVars, titleVars, sumVars, pairVars, genVars, chatVars, users, reset_tokens >>

NextPassword == ValidatePassword

SpecPassword == InitPassword /\ [][NextPassword]_vars

\* ------------------------------------------------------------ auth: the users table
\* response.data[0] of a query on users: the first of the rows found, 0 when none is
first_row(found) == IF found = {} THEN 0 ELSE CHOOSE i \in found : \A j \in found : i <= j

\* SupabaseService.get_user_by_username / get_user_by_email without an exception: the
\* id of the first row found, 0 for 'User not found'
get_user_by_username(username) == first_row({ i \in 1..Len(users) : users[i].username = username })
get_user_by_email(email) == first_row({ i \in 1..Len(users) : users[i].email = email })

\* the row create_user inserts (the hash stands for the password it was made from)
user_row(username, email, password, r) ==
    [username |-> username, email |-> email, password_hash |-> password, request |-> r]

\* the request returns its response
AuthReturned(q, status, message) ==
    [q EXCEPT !.pc = "done", !.status = status, !.message = message, !.password = ""]

AuthFinish(r, status, message) == auth' = [auth EXCEPT ![r] = AuthReturned(auth[r], status, message)]

\* ------------------------------------------------------------ signup
required_fields == << "username", "email", "first_name", "last_name", "password", "confirm_password" >>

\* for field in required_fields: if field not in data or not data[field].strip():
\* the error of the first such field, "" when there is none (a missing field is "")
required_error(data) ==
    LET blank == { k \in 1..Len(required_fields) : str_strip(data[required_fields[k]]) = "" } IN
    IF blank = {} THEN ""
    ELSE required_fields[CHOOSE k \in blank : \A j \in blank : k <= j] \o " is required"

\* signup up to the password check: the error of the 400 response, "" when the body passes
signup_error(data) ==
    LET username == str_strip(data.username)
        email == str_lower(str_strip(data.email))
    IN  IF required_error(data) # "" THEN required_error(data)
        ELSE IF data.password # data.confirm_password THEN "Passwords do not match"
        ELSE IF ~validate_username(username).valid THEN validate_username(username).message
        ELSE IF ~validate_email(email) THEN "Invalid email format"
        ELSE IF ~validate_password(data.password).valid THEN validate_password(data.password).message
        ELSE ""

SignupBody(username, email, password, confirm_password) ==
    [ username |-> username, email |-> email, first_name |-> "Ada", last_name |-> "Lovelace",
      password |-> password, confirm_password |-> confirm_password ]

\* a body that passes the validation of signup
AdaBody == SignupBody("ada_l", "ada@example.com", "Passw\\drd1", "Passw\\drd1")

\* request bodies of signup: bodies that pass, with the same username or the same email
\* (up to case and blanks), and bodies that fail each check
SignupBodies ==
    { AdaBody,
      SignupBody(" ada_l ", "lovelace@example.com", "Passw\\drd1", "Passw\\drd1"),
      SignupBody("byron", " Ada@Example.COM ", "Passw\\drd1", "Passw\\drd1"),
      SignupBody("", "ada@example.com", "Passw\\drd1", "Passw\\drd1"),
      SignupBody("ada_l", "ada@example.com", "Passw\\drd1", "Passw\\drd2"),
      SignupBody("ad", "ada@example.com", "Passw\\drd1", "Passw\\drd1"),
      SignupBody("ada_l", "ada.example.com", "Passw\\drd1", "Passw\\drd1"),
      SignupBody("ada_l", "ada@example.com", "Testpassword123", "Testpassword123") }

\* signup up to the username check: the body is validated, get_user_by_username looks
\* the name up (a lookup that raises counts as 'not found')
SignupBeginWith(r, bodies) ==
    /\ auth[r].pc = "idle"
    /\ r > 1 => auth[r - 1].pc # "idle"
    /\ \E data \in bodies, f \in BOOLEAN :
          LET username == str_strip(data.username)
              email == str_lower(str_strip(data.email))
              arrived == [auth EXCEPT ![r].op = "signup", ![r].username = username, ![r].email = email]
          IN  IF signup_error(data) # ""
              THEN /\ ~f /\ Faults(0)
                   /\ auth' = [arrived EXCEPT ![r] = AuthReturned(@, 400, signup_error(data))]
              ELSE IF ~f /\ get_user_by_username(username) # 0
              THEN /\ Faults(0)
                   /\ auth' = [arrived EXCEPT ![r] = AuthReturned(@, 409, "Username already exists")]
              ELSE /\ Faults(Raised(f))
                   /\ auth' = [arrived EXCEPT ![r].pc = "check_email", ![r].password = data.password]
    /\ UNCHANGED << clsVars, titleVars, sumVars, pairVars, genVars, dbVars, req, resp, users, reset_tokens >>

SignupBegin(r) == SignupBeginWith(r, SignupBodies)

\* get_user_by_email looks the email up (a lookup that raises counts as 'not found')
SignupCheckEmail(r) ==
    /\ auth[r].pc = "check_email"
    /\ \E f \in BOOLEAN :
          IF ~f /\ get_user_by_email(auth[r].email) # 0
          THEN Faults(0) /\ AuthFinish(r, 409, "Email already registered")
          ELSE Faults(Raised(f)) /\ auth' = [auth EXCEPT ![r].pc = "create"]
    /\ UNCHANGED << clsVars, titleVars, sumVars, pairVars, genVars, dbVars, req, resp, users, reset_tokens >>

\* create_user inserts the row; 201, or 500 when the insert raises
SignupCreate(r) ==
    /\ auth[r].pc = "create"
    /\ \E f \in BOOLEAN :
          /\ Faults(Raised(f))
          /\ IF f
             THEN AuthFinish(r, 500, "store error") /\ UNCHANGED users
             ELSE /\ users' = Append(users, user_row(auth[r].username, auth[r].email, auth[r].password, r))
                  /\ auth' = [auth EXCEPT ![r] = AuthReturned([@ EXCEPT !.user_id = Len(users) + 1],
                                                              201, "User created successfully")]
    /\ UNCHANGED << clsVars, titleVars, sumVars, pairVars, genVars, dbVars, req, resp, reset_tokens >>

NextSignup ==
    \E r \in 1..MaxAuth :
        \/ SignupBegin(r)
        \/ SignupCheckEmail(r)
        \/ SignupCreate(r)

SpecSignup == Init /\ [][NextSignup]_vars

\* ------------------------------------------------------------ password reset
\* the row create_password_reset_token inserts: the token is named by its position;
\* expired tells that expires_at (one hour after creation) has passed; changes counts
\* the password updates made with the token
token_row(user_id) == [user_id |-> user_id, used |-> FALSE, expired |-> FALSE, changes |-> 0]

\* verify_password_reset_token without an exception
verify_password_reset_token(token) ==
    IF ~(token \in 1..Len(reset_tokens) /\ ~reset_tokens[token].used)
    THEN [success |-> FALSE, error |-> "Invalid token", user_id |-> 0]
    ELSE IF reset_tokens[token].expired
    THEN [success |-> FALSE, error |-> "Token expired", user_id |-> 0]
    ELSE [success |-> TRUE, error |-> "", user_id |-> reset_tokens[token].user_id]

\* request bodies of forgot_password
ForgotBodies ==
    { [has_email |-> FALSE, email |-> ""], [has_email |-> TRUE, email |-> "ada.example.com"],
      [has_email |-> TRUE, email |-> " Ada@Example.com "],
      [has_email |-> TRUE, email |-> "nobody@example.com"] }

\* the response to an email get_user_by_email does not find
forgot_unknown_message == "If the email exists, a password reset link has been sent"

\* forgot_password
ForgotPassword ==
    /\ Len(reset_tokens) < MaxTokens
    /\ \E data \in ForgotBodies, f \in BOOLEAN, g \in BOOLEAN :
          LET email == str_lower(str_strip(data.email))
              user_id == get_user_by_email(email)
              answer(status, body) == resp' = Answer("forgot_password", email, user_id, status, body)
          IN  IF ~data.has_email
              THEN /\ ~f /\ ~g /\ Faults(0) /\ UNCHANGED reset_tokens
                   /\ resp' = Answer("forgot_password", "", 0, 400, "Email is required")
              ELSE IF ~validate_email(email)
              THEN /\ ~f /\ ~g /\ Faults(0) /\ UNCHANGED reset_tokens
                   /\ resp' = Answer("forgot_password", email, 0, 400, "Invalid email format")
              ELSE IF f \/ user_id = 0
              THEN /\ ~g /\ Faults(Raised(f)) /\ UNCHANGED reset_tokens
                   /\ answer(200, forgot_unknown_message)
              ELSE IF g
              THEN /\ Faults(1) /\ UNCHANGED reset_tokens
                   /\ answer(500, "Failed to generate reset token")
              ELSE /\ Faults(0)
                   /\ reset_tokens' = Append(reset_tokens, token_row(user_id))
                   /\ answer(200, "Password reset link has been sent to your email")
    /\ UNCHANGED << clsVars, titleVars, sumVars, pairVars, genVars, dbVars, req, users, auth >>

\* the clock passes the expires_at of a token
TokenExpires ==
    /\ \E t \in 1..Len(reset_tokens) :
          /\ ~reset_tokens[t].expired
          /\ reset_tokens' = [reset_tokens EXCEPT ![t].expired = TRUE]
    /\ UNCHANGED << clsVars, titleVars, sumVars, pairVars, genVars, chatVars, users, auth >>

\* request bodies of reset_password: a token that was never issued (0) or an issued one
ResetBodies ==
    { [has_token |-> FALSE, token |-> 0, has_password |-> TRUE, new_password |-> "Fresh\\dpw1"],
      [has_token |-> TRUE, token |-> 1, has_password |-> FALSE, new_password |-> ""],
      [has_token |-> TRUE, token |-> 1, has_password |-> TRUE, new_password |-> "weak"] }
        \cup { [has_token |-> TRUE, token |-> t, has_password |-> TRUE, new_password |-> p] :
                   t \in 0..MaxTokens, p \in { "Fresh\\dpw1", "Other\\dpw2" } }

\* reset_password up to verify_password_reset_token
ResetBegin(r) ==
    /\ auth[r].pc = "idle"
    /\ r > 1 => auth[r - 1].pc # "idle"
    /\ \E data \in ResetBodies, f \in BOOLEAN :
          LET token_result == verify_password_reset_token(data.token)
              arrived == [auth EXCEPT ![r].op = "reset_password", ![r].token = data.token]
              reject(status, message) ==
                  /\ ~f /\ Faults(0)
                  /\ auth' = [arrived EXCEPT ![r] = AuthReturned(@, status, message)]
          IN  IF ~data.has_token THEN reject(400, "token is required")
              ELSE IF ~data.has_password THEN reject(400, "new_password is required")
              ELSE IF ~validate_password(data.new_password).valid
              THEN reject(400, validate_password(data.new_password).message)
              ELSE IF f
              THEN /\ Faults(1)
                   /\ auth' = [arrived EXCEPT ![r] = AuthReturned(@, 400, "store error")]
              ELSE IF ~token_result.success THEN reject(400, token_result.error)
              ELSE /\ Faults(0)
                   /\ auth' = [arrived EXCEPT ![r].pc = "update", ![r].user_id = token_result.user_id,
                                              ![r].password = data.new_password]
    /\ UNCHANGED << clsVars, titleVars, sumVars, pairVars, genVars, dbVars, req, resp, users, reset_tokens >>

\* update_user_password(user_id, new_password)
ResetUpdate(r) ==
    /\ auth[r].pc = "update"
    /\ \E f \in BOOLEAN :
          /\ Faults(Raised(f))
          /\ IF f
             THEN AuthFinish(r, 500, "store error") /\ UNCHANGED << users, reset_tokens >>
             ELSE /\ users' = [users EXCEPT ![auth[r].user_id].password_hash = auth[r].password]
                  /\ reset_tokens' = [reset_tokens EXCEPT ![auth[r].token].changes = @ + 1]
                  /\ auth' = [auth EXCEPT ![r].pc = "mark"]
    /\ UNCHANGED << clsVars, titleVars, sumVars, pairVars, genVars, dbVars, req, resp >>

\* mark_password_reset_token_used(token), its result ignored; 200
ResetMark(r) ==
    /\ auth[r].pc = "mark"
    /\ \E f \in BOOLEAN :
          /\ Faults(Raised(f))
          /\ reset_tokens' = IF f THEN reset_tokens
                             ELSE [reset_tokens EXCEPT ![auth[r].token].used = TRUE]
    /\ AuthFinish(r, 200, "Password reset successfully")
    /\ UNCHANGED << clsVars, titleVars, sumVars, pairVars, genVars, dbVars, req, resp, users >>

NextReset ==
    \/ ForgotPassword
    \/ TokenExpires
    \/ \E r \in 1..MaxAuth :
          \/ SignupBeginWith(r, { AdaBody })
          \/ SignupCheckEmail(r)
          \/ SignupCreate(r)
          \/ ResetBegin(r)
          \/ ResetUpdate(r)
          \/ ResetMark(r)

SpecReset == Init /\ [][NextReset]_vars

\* ------------------------------------------------------------ the history of a request
NextHistory ==
    \/ CreateChat
    \/ \E r \in 1..MaxReq :
          \/ SendBegin(r)
          \/ SendSaveUser(r)
          \/ SendGenerateStep(r, TRUE)
          \/ SendSaveAssistant(r)
          \/ SendTitle(r)

SpecHistory == Init /\ [][NextHistory]_vars

\* ============================================================ claims
ContainsKeyword(keywords, question) ==
    \E k \in 1..Len(keywords) : str_contains(str_lower(question), keywords[k])

\* C1: a question that contains a keyword of the non-academic list (in any letter
\* case) is classified NON_ACADEMIC (False), whatever else it contains.
C1_NonAcademicKeywordWins ==
    (cls_pc = "returned" /\ ContainsKeyword(non_academic_keywords, cls_question))
        => cls_verdict = FALSE

\* a question with a non-academic and an academic keyword has been classified
C1_Witness ==
    /\ cls_pc = "returned"
    /\ ContainsKeyword(non_academic_keywords, cls_question)
    /\ ContainsKeyword(academic_keywords, cls_question)
    /\ cls_verdict = FALSE

\* the questions of the generate_response inputs that classify NON_ACADEMIC
OffTopicQuestions == { q \in GenQuestions : ~is_academic_question(q) }

IsGenerateCall(c) == c.kind = "generate"
IsClassifyCall(c) == c.kind = "classify"
GenerateCalls(calls) == { i \in 1..Len(calls) : IsGenerateCall(calls[i]) }

\* generate_response is past the classification of the extracts
DocumentsClassified == gen_pc = "prompted" \/ (gen_pc = "returned" /\ gen_in.question \notin OffTopicQuestions)

\* C2: a call whose question classifies NON_ACADEMIC returns success with the fixed
\* off-topic message and is_academic = false, and has made no external call.
C2_OffTopicShortCircuit ==
    (gen_pc = "returned" /\ gen_in.question \in OffTopicQuestions)
        => /\ gen_out.result = [success |-> TRUE, response |-> off_topic_message, is_academic |-> FALSE]
           /\ gen_out.calls = << >>

\* an off-topic question was refused although extracts and history were supplied
C2_Witness ==
    /\ gen_pc = "returned"
    /\ gen_in.question \in OffTopicQuestions
    /\ Len(gen_in.document_contents) > 0
    /\ Len(gen_in.chat_history) > 0
    /\ gen_out.calls = << >>

\* every extract of a non-empty list got the verdict NON_ACADEMIC
AllExtractsNonAcademic ==
    /\ Len(gen_in.document_contents) > 0
    /\ Len(gen_out.verdicts) = Len(gen_in.document_contents)
    /\ \A i \in 1..Len(gen_out.verdicts) : gen_out.verdicts[i] = FALSE

NormalizedReply(c) == str_upper(str_strip(c.text))

\* C4: an extract gets the verdict NON_ACADEMIC only when the reply of the external
\* model is NON_ACADEMIC; any other reply is treated as ACADEMIC.
C4_OtherReplyIsAcademic ==
    DocumentsClassified =>
        \A i \in 1..Len(gen_out.verdicts) :
            (gen_out.calls[i].ok /\ NormalizedReply(gen_out.calls[i]) # "NON_ACADEMIC")
                => gen_out.verdicts[i] = TRUE

\* C5: a failed classification call is swallowed: the extract is classified ACADEMIC
\* and kept in the academic subset, the call is not refused for its documents, and it
\* returns a failed result only if the generation call itself failed.
C5_ClassificationFailsOpen ==
    DocumentsClassified =>
        \A i \in 1..Len(gen_out.verdicts) :
            ~gen_out.calls[i].ok =>
                /\ gen_out.verdicts[i] = TRUE
                /\ \E j \in 1..Len(gen_out.academic_docs) :
                      gen_out.academic_docs[j] = gen_in.document_contents[i]
                /\ gen_pc = "returned" =>
                      /\ GenerateCalls(gen_out.calls) # {}
                      /\ ~gen_out.result.success =>
                            \E g \in GenerateCalls(gen_out.calls) : ~gen_out.calls[g].ok

\* the only extract's classification failed and the call went on to answer
C5_Witness ==
    /\ gen_pc = "returned"
    /\ Len(gen_in.document_contents) = 1
    /\ Len(gen_out.calls) = 2
    /\ ~gen_out.calls[1].ok
    /\ gen_out.academic_docs = gen_in.document_contents
    /\ gen_out.result.success

\* the position of the history header in the context, 0 if there is none
HistoryHeaderAt(parts) ==
    IF \E i \in 1..Len(parts) : parts[i] = "\\n\\nPrevious Conversation:"
    THEN CHOOSE i \in 1..Len(parts) : parts[i] = "\\n\\nPrevious Conversation:"
    ELSE 0

\* the last min(10, n) turns of a history of n turns, oldest first, as rendered
LastTurnsRendered(h) ==
    LET m == Min(Len(h), 10) IN [j \in 1..m |-> history_part(h[Len(h) - m + j])]

\* generate_response has built the context it sends to the model
ContextAssembled == gen_pc = "prompted" \/ GenerateCalls(gen_out.calls) # {}

\* C6: the history section of the assembled context holds exactly the last 10 turns
\* of a longer history, oldest first (all turns of a history of at most 10), and no
\* older turn appears anywhere in the prompt.
C6_LastTenTurnsInOrder ==
    (ContextAssembled /\ Len(gen_in.chat_history) > 0) =>
        LET parts == gen_out.context_parts
            at == HistoryHeaderAt(parts)
            h == gen_in.chat_history
        IN  /\ at > 0
            /\ SubSeq(parts, at + 1, Len(parts) - 2) = LastTurnsRendered(h)
            /\ \A i \in 1..(Len(h) - 10) : ~str_contains(str_join(parts), history_part(h[i]))

\* a history of more than 10 turns was assembled
C6_Witness ==
    /\ gen_pc = "returned"
    /\ GenerateCalls(gen_out.calls) # {}
    /\ Len(gen_in.chat_history) > 10
    /\ HistoryHeaderAt(gen_out.context_parts) > 0

SameChat(i, j) == messages[i].chat_id = messages[j].chat_id

\* C7: within one chat the message_order values are unique and strictly increasing in
\* the order the messages were created, after any interleaving of send_message
\* requests (stated here for the behaviours in which no call of the store raises).
C7_OrdersStrictlyIncreasing ==
    faults = 0 =>
        \A i \in 1..Len(messages), j \in 1..Len(messages) :
            (i < j /\ SameChat(i, j)) => messages[i].message_order < messages[j].message_order

AssistantMessagesOf(r) ==
    { i \in 1..Len(messages) : messages[i].request = r /\ messages[i].role = "assistant" }

\* C8: a request whose generation failed has returned status 500 with the error of the
\* failed result, its user message is persisted, and it has created no assistant
\* message; every assistant message comes from a request whose generation succeeded.
C8_FailedGenerationLeavesUserMessageOnly ==
    /\ \A r \in 1..MaxReq :
          req[r].generation = "failed" =>
              /\ req[r].pc = "done"
              /\ req[r].status = 500
              /\ req[r].error = "Error generating response: quota exceeded"
              /\ req[r].user_message \in 1..Len(messages)
              /\ messages[req[r].user_message].request = r
              /\ messages[req[r].user_message].role = "user"
              /\ AssistantMessagesOf(r) = {}
    /\ \A i \in 1..Len(messages) :
          messages[i].role = "assistant" => req[messages[i].request].generation = "succeeded"

\* one request failed in generation after another had been answered
C8_Witness ==
    \E r \in 1..MaxReq, q \in 1..MaxReq :
        /\ req[r].generation = "failed"
        /\ req[r].pc = "done"
        /\ req[q].assistant_message > 0

\* C9: the generation call is issued at most once per call of generate_response; when
\* it fails it is the last external call and the result is success = false with an
\* error description.
C9_NoRetryOnFailure ==
    /\ Cardinality(GenerateCalls(gen_out.calls)) <= 1
    /\ \A g \in GenerateCalls(gen_out.calls) :
          ~gen_out.calls[g].ok =>
              /\ g = Len(gen_out.calls)
              /\ gen_pc = "returned"
              /\ gen_out.result = [success |-> FALSE,
                                   error |-> "Error generating response: " \o gen_out.calls[g].text]

\* the generation call failed and the call returned
C9_Witness ==
    /\ gen_pc = "returned"
    /\ GenerateCalls(gen_out.calls) # {}
    /\ ~gen_out.calls[Len(gen_out.calls)].ok
    /\ ~gen_out.result.success

\* C10: generate_chat_title returns at most max_length characters, whatever the text,
\* the bound and the outcome of the external call.
C10_TitleWithinMaxLength ==
    title_pc # "called" => Len(title_out) <= title_in.max_length

\* C11: summarize_document returns at most max_length characters, both when the reply
\* is longer than the bound and when the external call fails.
C11_SummaryWithinMaxLength ==
    sum_pc \in { "returned", "fell_back" } => Len(sum_out) <= sum_in.max_length

SynthExits == { "called", "returned", "fell_back" }

\* C12: generate_chat_title and summarize_document never let an exception out: for
\* every text and every outcome of the external call (reply, oversized reply, failure)
\* each ends by returning a string, on failure the local fallback string.
C12_SynthesisNeverRaises ==
    /\ title_pc \in SynthExits
    /\ sum_pc \in SynthExits
    /\ title_pc # "called" => title_out \in STRING
    /\ sum_pc # "called" => sum_out \in STRING
    /\ sum_pc = "fell_back" => OccursAt(sum_out, 1, "Document summary unavailable: ")
    /\ title_pc = "fell_back" =>
          \/ title_out = title_in.first_message
          \/ OccursAt(title_out, Len(title_out) - 2, "...")

\* both external calls failed and both methods returned their fallback
C12_Witness ==
    /\ title_pc = "fell_back"
    /\ sum_pc = "fell_back"
    /\ title_out = "abc"
    /\ sum_out = "Document summary unavailable: quota exceeded"

MessagesOf(r) == { i \in 1..Len(messages) : messages[i].request = r }

\* the request returned 201 with its two rows: the user message, then the assistant
\* message with the next sequence number
BothPersistedAndReturned(r) ==
    /\ req[r].status = 201
    /\ req[r].user_message \in 1..Len(messages)
    /\ req[r].assistant_message \in 1..Len(messages)
    /\ req[r].user_message < req[r].assistant_message
    /\ MessagesOf(r) = { req[r].user_message, req[r].assistant_message }
    /\ messages[req[r].user_message].role = "user"
    /\ messages[req[r].assistant_message].role = "assistant"
    /\ messages[req[r].user_message].chat_id = req[r].chat_id
    /\ messages[req[r].assistant_message].chat_id = req[r].chat_id
    /\ messages[req[r].assistant_message].message_order = messages[req[r].user_message].message_order + 1

\* the request returned 500 for the assistant message, the user message alone persisted
AssistantSaveFailed(r) ==
    /\ req[r].status = 500
    /\ req[r].error = "Failed to save assistant message"
    /\ req[r].assistant_message = 0
    /\ MessagesOf(r) = { req[r].user_message }
    /\ messages[req[r].user_message].role = "user"

GenerationSucceeded(r) == req[r].pc = "done" /\ req[r].generation = "succeeded"

\* C13 as stated: every request whose generate_response returned success = true (a
\* refusal included) has persisted the user message and then the assistant message,
\* the assistant's sequence number the user's plus one, and returned both.
C13_SuccessPersistsBoth ==
    \A r \in 1..MaxReq : GenerationSucceeded(r) => BothPersistedAndReturned(r)

\* C13 amended: the same holds when the store saves the assistant message; when that
\* create_message fails the request returns 500 "Failed to save assistant message" and
\* only the user message is persisted.
C13_SuccessPersistsBothIfSaved ==
    \A r \in 1..MaxReq :
        GenerationSucceeded(r) => (BothPersistedAndReturned(r) \/ AssistantSaveFailed(r))

\* a refusal and an answer were both persisted after their user messages
C13_Witness ==
    \E r \in 1..MaxReq, q \in 1..MaxReq :
        /\ GenerationSucceeded(r) /\ BothPersistedAndReturned(r)
        /\ messages[req[r].assistant_message].content = off_topic_message
        /\ GenerationSucceeded(q) /\ BothPersistedAndReturned(q)
        /\ messages[req[q].assistant_message].content = "Entropy measures disorder."

\* C14: a request whose content is missing, empty or only whitespace returns 400 at
\* once: it persists no message, never reaches the reading of history and files, and
\* generate_response is not called for it.
C14_BlankContentRejected ==
    \A r \in 1..MaxReq :
        req[r].blank =>
            /\ req[r].pc = "done"
            /\ req[r].status = 400
            /\ req[r].error \in { "Message content is required", "Message content cannot be empty" }
            /\ req[r].generation = "none"
            /\ req[r].user_message = 0
            /\ req[r].assistant_message = 0
            /\ MessagesOf(r) = {}

\* a whitespace-only message was rejected on an existing chat of the caller
C14_Witness ==
    \E r \in 1..MaxReq :
        /\ req[r].blank
        /\ req[r].status = 400
        /\ req[r].error = "Message content cannot be empty"
        /\ chat_found(req[r].chat_id, req[r].user_id)

\* positions of the context holding a rendered extract, a rendered turn, a given text
ExtractPositions(parts) ==
    { i \in 1..Len(parts) : \E j \in 1..Len(gen_out.academic_docs) :
          parts[i] = document_part(j, gen_out.academic_docs[j]) }

TurnPositions(parts) ==
    { i \in 1..Len(parts) : \E t \in 1..Len(gen_in.chat_history) :
          parts[i] = history_part(gen_in.chat_history[t]) }

PositionsOf(parts, text) == { i \in 1..Len(parts) : parts[i] = text }

\* C15: the assembled context is the system prompt, then the document section (header
\* and extracts, present iff an extract is academic), then the history section (header
\* and turns, present iff the history is non-empty), then the current question and the
\* closing instruction; no extract or turn follows the question, no turn precedes an
\* extract.
C15_FixedSectionOrder ==
    ContextAssembled =>
        LET parts == gen_out.context_parts
            n == Len(parts)
            docs == ExtractPositions(parts)
            turns == TurnPositions(parts)
            doc_header == PositionsOf(parts, "\\n\\nDocument Content:")
            hist_header == PositionsOf(parts, "\\n\\nPrevious Conversation:")
            ask == PositionsOf(parts, "\\n\\nCurrent Question: " \o gen_in.question)
        IN  /\ n >= 3
            /\ PositionsOf(parts, system_prompt) = { 1 }
            /\ ask = { n - 1 }
            /\ parts[n] = "\\n\\nPlease provide a comprehensive, academic response:"
            /\ Cardinality(docs) = Len(gen_out.academic_docs)
            /\ Cardinality(doc_header) = (IF Len(gen_out.academic_docs) > 0 THEN 1 ELSE 0)
            /\ Cardinality(turns) = Min(Len(gen_in.chat_history), HistoryWindow)
            /\ Cardinality(hist_header) = (IF Len(gen_in.chat_history) > 0 THEN 1 ELSE 0)
            /\ { 1 } \cup doc_header \cup docs \cup hist_header \cup turns \cup { n - 1, n } = 1..n
            /\ \A h \in doc_header, d \in docs : 1 < h /\ h < d
            /\ \A d \in docs, h \in hist_header : d < h
            /\ \A h \in doc_header, g \in hist_header : h < g
            /\ \A h \in hist_header, t \in turns : h < t
            /\ \A p \in docs \cup turns : p < n - 1

\* a context with two extracts and a conversation was assembled and sent
C15_Witness ==
    /\ gen_pc = "returned"
    /\ GenerateCalls(gen_out.calls) # {}
    /\ Len(gen_out.academic_docs) = 2
    /\ Len(gen_in.chat_history) >= 2
    /\ Cardinality(TurnPositions(gen_out.context_parts)) >= 2

\* the question has no keyword of either list and matches none of the four patterns
NoIndicator(question) ==
    /\ ~ContainsKeyword(non_academic_keywords, question)
    /\ ~ContainsKeyword(academic_keywords, question)
    /\ ~matches_academic_pattern(str_lower(question))

PlainQuestions == { q \in GenQuestions : NoIndicator(q) }

\* the classifier's default on every plain text built from the question fragments
PlainTextsDefaultAcademic == \A q \in Questions : NoIndicator(q) => classify_question(q)

FirstChars(text, k) == SubSeq(text, 1, Min(Max(k, 0), Len(text)))

\* C17: when the external call fails generate_chat_title returns the text unchanged if
\* it has at most max_length characters, and otherwise its first max_length - 3
\* characters followed by "..." (47 characters and "..." for max_length = 50).
C17_FallbackTruncatesInput ==
    title_pc = "fell_back" =>
        title_out = IF Len(title_in.first_message) <= title_in.max_length
                    THEN title_in.first_message
                    ELSE FirstChars(title_in.first_message, title_in.max_length - 3) \o "..."

\* both calls of the pair have returned
PairDone == pair_pc = "returned" /\ Len(pair_out.verdicts) = 2

AgreeOnClassifiedPart(a, b) == slice_to(a, 2000) = slice_to(b, 2000)

\* C19: on the question path and on the document path alike, two texts that agree on
\* their first 2000 characters get the same verdict (the external model answering the
\* same prompt the same way).
C19_OnlyFirst2000CharactersCount ==
    (PairDone /\ AgreeOnClassifiedPart(pair_in.texts[1], pair_in.texts[2]))
        => pair_out.verdicts[1] = pair_out.verdicts[2]

\* the input position of the j-th extract classified ACADEMIC
NthAcademic(j) ==
    CHOOSE i \in 1..Len(gen_out.verdicts) :
        gen_out.verdicts[i] /\ Cardinality({ m \in 1..i : gen_out.verdicts[m] }) = j

AcademicCount == Cardinality({ i \in 1..Len(gen_out.verdicts) : gen_out.verdicts[i] })

\* the parts of the context that are labelled extracts
LabelledParts(parts) == { i \in 1..Len(parts) : OccursAt(parts[i], 1, "\\n--- Document ") }

\* the extracts were classified, at least one of them ACADEMIC
SomeExtractAcademic == DocumentsClassified /\ AcademicCount > 0

\* the document section: the header at position 2, then the extracts classified
\* ACADEMIC, whole, in input order, labelled Document 1 .. Document k, and no other
\* labelled extract anywhere in the context
DocumentSectionExact ==
    LET parts == gen_out.context_parts IN
    /\ ContextAssembled
    /\ Len(parts) >= AcademicCount + 4
    /\ parts[2] = "\\n\\nDocument Content:"
    /\ \A j \in 1..AcademicCount :
          parts[2 + j] = "\\n--- Document " \o ToString(j) \o " ---\\n"
                            \o gen_in.document_contents[NthAcademic(j)]
    /\ LabelledParts(parts) = 3..(2 + AcademicCount)

\* C20 as stated: when an extract is classified ACADEMIC the document section holds
\* exactly the academic extracts, whole, in input order, labelled Document 1 .. k, no
\* other extract is in the context, and the result has is_academic = true.
C20_AcademicExtractsInContext ==
    SomeExtractAcademic =>
        /\ DocumentSectionExact
        /\ gen_pc = "returned" =>
              /\ "is_academic" \in DOMAIN gen_out.result
              /\ gen_out.result.is_academic

\* C20 amended: the same document section; the result has is_academic = true when the
\* generation call succeeds, and is the failed result, without is_academic, when the
\* generation call fails.
C20_AcademicExtractsInContextOnSuccess ==
    SomeExtractAcademic =>
        /\ DocumentSectionExact
        /\ gen_pc = "returned" =>
              IF gen_out.calls[Len(gen_out.calls)].ok
              THEN gen_out.result = [success |-> TRUE, response |-> gen_out.calls[Len(gen_out.calls)].text,
                                     is_academic |-> TRUE]
              ELSE ~gen_out.result.success /\ "is_academic" \notin DOMAIN gen_out.result

\* of two extracts the first was classified NON_ACADEMIC: the second alone is in the
\* context, as Document 1, and the call answered
C20_Witness ==
    /\ gen_pc = "returned"
    /\ gen_in.document_contents = << "my resume", "lecture notes on thermodynamics" >>
    /\ gen_out.verdicts = << FALSE, TRUE >>
    /\ gen_out.context_parts[3] = "\\n--- Document 1 ---\\nlecture notes on thermodynamics"
    /\ gen_out.result.success
    /\ gen_out.result.is_academic

\* the only extract handed to generate_response is the empty text
SingleEmptyExtract == gen_in.document_contents = << "" >>

\* C21: a list holding one extract with empty text is still classified (one external
\* call), the empty extract gets the verdict ACADEMIC, and generate_response does not
\* return the document refusal for it.
C21_EmptyExtractIsAcademic ==
    (DocumentsClassified /\ SingleEmptyExtract) =>
        /\ Len(gen_out.calls) >= 1
        /\ IsClassifyCall(gen_out.calls[1])
        /\ gen_out.verdicts = << TRUE >>
        /\ gen_out.academic_docs = << "" >>
        /\ gen_out.result # document_refusal_result

\* request r persisted a user message with sequence number 1
PersistedFirstMessage(r) ==
    req[r].user_message # 0 /\ messages[req[r].user_message].message_order = 1

\* C22: a finished send_message request has invoked generate_chat_title exactly when the
\* user message it persisted has sequence number 1, whatever became of the generation.
C22_TitleOnFirstMessage ==
    \A r \in 1..MaxReq :
        (req[r].pc = "done" /\ req[r].user_message # 0) =>
            (req[r].titled <=> PersistedFirstMessage(r))

\* the rows request r passed to generate_response as history
HistoryRows(r) == { req[r].history[k] : k \in 1..Len(req[r].history) }

\* the rows of r's chat that were persisted before r's own user message
EarlierRows(r) == { i \in chat_message_ids(req[r].chat_id) : i < req[r].user_message }

\* r's own user message is among the rows it passed as history
OwnMessageInHistory(r) == req[r].user_message \in HistoryRows(r)

\* C23: the history a send_message request passes to generate_response does not contain
\* the user message the request persisted, and contains every earlier message of the chat.
C23_HistoryExcludesCurrent ==
    \A r \in 1..MaxReq :
        req[r].generation # "none" =>
            /\ ~OwnMessageInHistory(r)
            /\ EarlierRows(r) \subseteq HistoryRows(r)

\* upload_file has answered 201: the record it created is the newest row of files
Uploaded == resp.op = "upload_file" /\ resp.status = 201 /\ Len(files) >= 1

\* C24: after an upload that passed validation and created its record, the record holds
\* an extract, and when the extraction failed that extract is the placeholder text.
C24_PlaceholderOnEmptyOrFailed ==
    Uploaded =>
        LET stored == files[Len(files)] IN
        /\ stored.processed_content # ""
        /\ ~resp.extraction_success
               => stored.processed_content = no_extractable_content(stored.filename)

Digits == "0123456789"

HasDigit(password) == \E i \in 1..Len(password) : HasChar(Digits, CharAt(password, i))

\* the message of the first rule of the password policy that password does not meet
FirstUnmetRule(password) ==
    IF Len(password) < 8 THEN "Password must be at least 8 characters long"
    ELSE IF ~has_uppercase(password) THEN "Password must contain at least one uppercase letter"
    ELSE IF ~has_lowercase(password) THEN "Password must contain at least one lowercase letter"
    ELSE IF ~HasDigit(password)
    THEN "Password must contain at least one number"
    ELSE ""

\* C26: validate_password accepts a password exactly when it has at least 8 characters,
\* an uppercase letter, a lowercase letter and a digit, and rejects every other password
\* with the message of the first rule it does not meet.
C26_PasswordPolicy ==
    (auth[1].op = "validate_password" /\ auth[1].pc = "returned") =>
        /\ auth[1].valid <=> FirstUnmetRule(auth[1].password) = ""
        /\ ~auth[1].valid => auth[1].message = FirstUnmetRule(auth[1].password)

\* forgot_password has answered a validly formatted email
ForgotAnswered == resp.op = "forgot_password" /\ resp.status # 400

\* C25: the response of forgot_password to a validly formatted email is the response an
\* unregistered email gets (status 200 and the same body), registered or not.
C25_ForgotPasswordSameResponse ==
    ForgotAnswered => (resp.status = 200 /\ resp.body = forgot_unknown_message)

\* C27: a password-reset token changes a password at most once, whatever the
\* interleaving of the reset_password requests that carry it and whether or not marking
\* it used succeeds.
C27_TokenChangesPasswordOnce ==
    \A t \in 1..Len(reset_tokens) : reset_tokens[t].changes <= 1

\* signup request r created a row of users
CreatedUser(r) == \E i \in 1..Len(users) : users[i].request = r

\* C30: no two users share a username or an email, and a signup that was answered
\* 'already exists' / 'already registered' created no user.
C30_UniqueUsernamesAndEmails ==
    /\ \A i, j \in 1..Len(users) :
          i # j => (users[i].username # users[j].username /\ users[i].email # users[j].email)
    /\ \A r \in 1..MaxAuth : (auth[r].op = "signup" /\ auth[r].status = 409) => ~CreatedUser(r)

\* the last one-step request was op and was answered with status
Answered(op, status) == resp.op = op /\ resp.status = status

\* C28: once delete_chat has succeeded for a chat, get_user_chats does not list it,
\* get_chat does not return it, upload_file creates no record in it, and a send_message
\* request that arrives for it is rejected without persisting a message.
C28_DeletedChatIsGone ==
    /\ Answered("get_user_chats", 200) => \A k \in 1..Len(resp.chats) : resp.chats[k].is_active
    /\ Answered("get_chat", 200) => ~chat_deleted(resp.target)
    /\ Answered("upload_file", 201) => ~chat_deleted(resp.target)
    /\ \A r \in 1..MaxReq :
          req[r].after_delete =>
              (req[r].pc = "done" /\ req[r].status \in { 400, 404 } /\ req[r].user_message = 0)

\* user_id is the user the chat belongs to
Owns(user_id, chat_id) == chat_id \in 1..Len(chats) /\ chats[chat_id].user_id = user_id

\* user_id is the user the file record belongs to
OwnsFile(user_id, file_id) == file_id \in 1..Len(files) /\ files[file_id].user_id = user_id

ChatRequests == { "get_chat", "update_chat", "delete_chat", "upload_file" }

\* the response carries no chat, message or file
NoContent(r) == r.chats = << >> /\ r.messages = << >> /\ r.files = << >>

\* every message and file record was created by a request of the chat's owner; the
\* response to a request on a chat of another user carries no content; a send_message
\* request on a chat of another user was rejected and persisted nothing
OwnersOnly ==
    /\ \A i \in 1..Len(messages) : Owns(req[messages[i].request].user_id, messages[i].chat_id)
    /\ \A i \in 1..Len(files) : Owns(files[i].user_id, files[i].chat_id)
    /\ (resp.op \in ChatRequests /\ ~Owns(resp.user_id, resp.target)) => NoContent(resp)
    /\ resp.op = "delete_file" => NoContent(resp)
    /\ \A r \in 1..MaxReq :
          (req[r].pc # "idle" /\ ~Owns(req[r].user_id, req[r].chat_id)) =>
              /\ req[r].pc = "done" /\ req[r].status \in { 400, 404 }
              /\ req[r].user_message = 0 /\ req[r].assistant_message = 0

\* the step answers a one-step request on a chat or file that is not the requester's
ForeignRequestAnswered ==
    /\ req' = req /\ Len(chats') = Len(chats)
    /\ \/ resp'.op \in ChatRequests /\ ~Owns(resp'.user_id, resp'.target)
       \/ resp'.op = "delete_file" /\ ~OwnsFile(resp'.user_id, resp'.target)

\* C29: no chat operation acts across users: messages and file records are only created
\* by the owner of their chat, and get_chat, update_chat, delete_chat, send_message,
\* upload_file and delete_file by a user who does not own the target reveal no content
\* and leave the chats, messages and files unchanged.
C29_NoCrossUserAction ==
    /\ []OwnersOnly
    /\ [][ForeignRequestAnswered => UNCHANGED dbVars]_vars

\* a user has been refused a chat of another user that holds a message and a file
C29_Witness ==
    /\ resp.op = "get_chat" /\ resp.status = 404
    /\ resp.target \in 1..Len(chats) /\ ~Owns(resp.user_id, resp.target)
    /\ Len(messages) >= 1 /\ Len(files) >= 1

====
